---- MODULE Spec2Model ----
(***************************************************************************)
(* powernode gateway: the workflow orchestrator                            *)
(* (src/powernode/gateway/orchestrator.py), the module router              *)
(* (src/powernode/gateway/router.py): registry, dispatch and health        *)
(* checks, and the answer of the execute endpoint of the gateway           *)
(* (src/powernode/gateway/gateway.py).                                     *)
(*                                                                         *)
(* Concurrency is asyncio's: one thread, coroutines that give up control   *)
(* only at an await that really suspends.  An uncontended asyncio.Lock is  *)
(* acquired without suspending and no holder of Orchestrator._lock awaits  *)
(* inside the locked block, so each handler runs atomically from one       *)
(* suspension point to the next.  The suspension points of an execution    *)
(* are: asyncio.gather (line 195), the dispatch router.route_request       *)
(* (line 266) and the backoff asyncio.sleep (line 281).                    *)
(*                                                                         *)
(* Python objects are held in a heap (a sequence of Workflow objects); the *)
(* table Orchestrator.workflows and the local variable `workflow` of an    *)
(* execution hold references (indices) into it.                            *)
(*                                                                         *)
(* Responses and exceptions of dispatch attempts carry a tag (execution,   *)
(* step, attempt) naming the attempt that produced them, so that distinct  *)
(* attempts give distinct values.                                          *)
(*                                                                         *)
(* Spec runs the submitted Definitions with restarts; FairSpec is the same *)
(* without restarts under a fair event loop; StepSpec runs StepDefinitions,*)
(* whose steps carry parameters and name their services; StatusSpec adds   *)
(* get_workflow_status between any two steps; RouterSpec runs the module   *)
(* registry and the dispatches of the router on its own, HealthSpec the    *)
(* registry and the health checks.  In the executions of the orchestrator  *)
(* a dispatch is the lookup of the service in the registry followed by an  *)
(* outcome of the target (a response or an exception).                     *)
(***************************************************************************)
EXTENDS Integers, Sequences, FiniteSets, TLC

\* ------------------------------------------------------------------ bounds
MaxRetry == 2
MaxExec == 2
MaxWorkflows == 2
MaxRestart == 1
LiveMaxWorkflows == 1
MaxRegistrations == 2

\* ------------------------------------------------------------- basic values
\* Optional[T]: None is the empty sequence, a value v is <<v>>.
None == << >>
Some(v) == <<v>>
IsNone(o) == o = << >>
The(o) == o[1]

Range(seq) == {seq[i] : i \in 1..Len(seq)}

\* WorkflowStatus
PENDING == "pending"
RUNNING == "running"
COMPLETED == "completed"
FAILED == "failed"
CANCELLED == "cancelled"
WorkflowStatus == {PENDING, RUNNING, COMPLETED, FAILED, CANCELLED}

WorkflowIds == {"w1", "w2"}
Execs == 1..MaxExec

\* ------------------------------------------------------------- exceptions
\* An exception is its type and its message; str(e) is the message.
Exception(kind, e, s, k) ==
    [type |-> kind, msg |-> [text |-> kind, exec |-> e, step |-> s, attempt |-> k, prefix |-> ""]]
str(e) == e.msg
\* f"Step {step.name} failed: {str(result)}"
StepFailedMsg(name, m) == [m EXCEPT !.prefix = name]
\* ValueError("Cannot resolve step dependencies")
DependencyError == Exception("Cannot resolve step dependencies", 0, "", 0)
\* ValueError(f"Workflow {workflow_id} not found")
NotFoundError == Exception("Workflow not found", 0, "", 0)
\* `raise last_error` with last_error = None
RaiseNoneError == Exception("exceptions must derive from BaseException", 0, "", 0)
\* ValueError(f"Service {service} not found"): the message names the service
ServiceNotFoundError(service) == Exception("Service not found", 0, service, 0)

\* ------------------------------------------------------ parameter values
\* The values a parameter mapping holds, each with its Python type t and its
\* content in the field of that type: s, the pieces of a str, where "${", "."
\* and "}" are pieces of their own; n, an int; d, a dict as a function from
\* its keys; l, a list as a sequence.
StrValue(pieces) == [t |-> "str", s |-> pieces, n |-> 0, d |-> << >>, l |-> << >>]
IntValue(n) == [t |-> "int", s |-> << >>, n |-> n, d |-> << >>, l |-> << >>]
DictValue(f) == [t |-> "dict", s |-> << >>, n |-> 0, d |-> f, l |-> << >>]
ListValue(items) == [t |-> "list", s |-> << >>, n |-> 0, d |-> << >>, l |-> items]
NoneValue == [t |-> "NoneType", s |-> << >>, n |-> 0, d |-> << >>, l |-> << >>]
isinstance(value, type) == value.t = type
\* the string "${" + ref + "}"
Template(ref) == StrValue(<<"${">> \o ref \o <<"}">>)

\* what a dispatch attempt raises, and the mapping it returns
DispatchError(e, s, k) == Exception("dispatch failed", e, s, k)
Response(e, s, k) ==
    [exec |-> IntValue(e), step |-> StrValue(<<s>>), attempt |-> IntValue(k)]

\* ------------------------------------------------- workflow definitions
\* A step definition as submitted to create_workflow.
StepDef(name, deps, retries) ==
    [name |-> name, service |-> "svc", endpoint |-> "/x", method |-> "POST",
     params |-> << >>, depends_on |-> deps, retry_count |-> retries, timeout |-> None]

\* A step definition that names its service and its parameters.
StepDefOn(name, service, params, deps, retries) ==
    [name |-> name, service |-> service, endpoint |-> "/x", method |-> "POST",
     params |-> params, depends_on |-> deps, retry_count |-> retries, timeout |-> None]

\* the step names the submitted definitions use
StepNames == {"a", "b", "c"}

\* The submitted definitions: name and ordered step list.
Definitions ==
    { [name |-> "chain",    steps |-> << StepDef("a", << >>, 1), StepDef("b", <<"a">>, 0) >>],
      [name |-> "fan",      steps |-> << StepDef("a", << >>, 0), StepDef("b", << >>, 1),
                                         StepDef("c", <<"a", "b">>, 0) >>],
      [name |-> "retry",    steps |-> << StepDef("a", << >>, MaxRetry) >>],
      [name |-> "cycle",    steps |-> << StepDef("a", <<"b">>, 0), StepDef("b", <<"a">>, 0) >>],
      [name |-> "dangling", steps |-> << StepDef("a", << >>, 0), StepDef("b", <<"zz">>, 0),
                                         StepDef("c", <<"b">>, 0) >>],
      [name |-> "mixed",    steps |-> << StepDef("a", << >>, 0), StepDef("b", <<"c">>, 0),
                                         StepDef("c", <<"b">>, 0) >>] }

\* Definitions whose steps carry parameters with references, a step that
\* targets a service that is not registered, and two independent branches
\* (a alone; b then c, where b refers to a result of a and c has a parameter
\* named like the step b).
StepDefinitions ==
    { [name |-> "templated",
       steps |-> << StepDefOn("a", "svc", << >>, << >>, 1),
                    StepDefOn("b", "svc",
                        [input   |-> Template(<<"a", ".", "attempt">>),
                         nested  |-> DictValue([k |-> Template(<<"a", ".", "step">>),
                                                missing |-> Template(<<"b", ".", "step">>),
                                                n |-> IntValue(7)]),
                         items   |-> ListValue(<< Template(<<"a", ".", "attempt">>),
                                                  DictValue([k |-> Template(<<"a", ".", "attempt">>)]),
                                                  ListValue(<<Template(<<"a", ".", "exec">>)>>),
                                                  IntValue(7) >>),
                         missing |-> Template(<<"zz", ".", "attempt">>),
                         nodot   |-> Template(<<"a">>),
                         nokey   |-> Template(<<"a", ".", "value", ".", "sub">>),
                         lit     |-> StrValue(<<"hello">>),
                         n       |-> IntValue(7)],
                        <<"a">>, 1) >>],
      [name |-> "unregistered",
       steps |-> << StepDefOn("a", "svc", << >>, << >>, 0),
                    StepDefOn("b", "svc", << >>, <<"a">>, 0),
                    StepDefOn("c", "nosvc", << >>, <<"a">>, 1) >>],
      [name |-> "branches",
       steps |-> << StepDefOn("a", "svc", << >>, << >>, 0),
                    StepDefOn("b", "svc", [ref |-> Template(<<"a", ".", "attempt">>)],
                              << >>, 1),
                    StepDefOn("c", "svc", [b |-> StrValue(<<"own">>)], <<"b">>, 0) >>] }

\* the initial_context arguments of execute_workflow
InitialContexts ==
    {None, Some([input |-> IntValue(0), region |-> StrValue(<<"eu">>), a |-> IntValue(5)])}

\* ------------------------------------------------------------------ state
VARIABLES
    heap,           \* the Workflow objects ever constructed
    workflows,      \* Orchestrator.workflows: workflow_id -> reference (0: absent)
    state_manager,  \* the persisted store, namespace "workflows": key -> Optional value
    lock,           \* Orchestrator._lock is held
    exec,           \* the execute_workflow calls: locals and position of each
    restarts,       \* how many times the Orchestrator was constructed anew
    reply,          \* what get_workflow_status returned, if it was the last operation
    modules,        \* ModuleRouter.modules: the entries of the dict, in insertion order
    registrations,  \* how many ModuleRegistration objects were constructed
    dispatched,     \* the router.route_request call just made, if it was the last operation
    health,         \* the check_health call: its locals and position
    manager         \* the StateManager object, its database and the clock

vars == <<heap, workflows, state_manager, lock, exec, restarts, reply,
          modules, registrations, dispatched, health, manager>>
router_vars == <<modules, registrations, dispatched, health>>
orchestrator_vars == <<heap, workflows, state_manager, lock, exec, restarts, reply>>

StoreKeys == {"workflow", "workflow_execution"} \X WorkflowIds
DefKey(id) == <<"workflow", id>>
ExecKey(id) == <<"workflow_execution", id>>

\* Step.__init__
Step(d) ==
    [name |-> d.name, service |-> d.service, endpoint |-> d.endpoint, method |-> d.method,
     params |-> d.params, depends_on |-> d.depends_on, retry_count |-> d.retry_count,
     timeout |-> d.timeout,
     status |-> PENDING, result |-> None, error |-> None,
     started_at |-> None, completed_at |-> None]

\* Workflow.__init__ (steps: an insertion-ordered dict, here the ordered list
\* of steps, whose names are unique)
Workflow(id, name, steps) ==
    [workflow_id |-> id, name |-> name, steps |-> steps, status |-> PENDING,
     started_at |-> None, completed_at |-> None, result |-> None, error |-> None]

\* the persisted definition written by create_workflow
PersistedDefinition(name, steps) ==
    [name |-> name,
     steps |-> [i \in 1..Len(steps) |->
                  [name |-> steps[i].name, service |-> steps[i].service,
                   endpoint |-> steps[i].endpoint, method |-> steps[i].method,
                   params |-> steps[i].params, depends_on |-> steps[i].depends_on,
                   retry_count |-> steps[i].retry_count, timeout |-> steps[i].timeout]]]

StepNamesOf(w) == {w.steps[i].name : i \in 1..Len(w.steps)}
StepIndex(w, name) == CHOOSE i \in 1..Len(w.steps) : w.steps[i].name = name
StepOf(w, name) == w.steps[StepIndex(w, name)]

IdleExec ==
    [pc |-> "idle", workflow_id |-> "", workflow |-> 0,
     context |-> << >>,
     results |-> << >>, executed_steps |-> {}, ready_steps |-> << >>, tasks |-> << >>,
     ret |-> None, raised |-> None,
     batches |-> 0, launched |-> {}, dispatched_ok |-> << >>, completed_marks |-> {},
     failed_step |-> None, rehydrated |-> FALSE, prior_status |-> "", prior_completed |-> {}]

\* ------------------------------------------------------------ ModuleRouter
\* A path or URL is the sequence of its pieces: "/", "{" and "}" are pieces of
\* their own; no other piece used here is a prefix of another one, so that a
\* prefix of pieces is a prefix of characters and the other way round.
RECURSIVE rstrip(_, _)
rstrip(string, ch) ==
    IF string # << >> /\ string[Len(string)] = ch
    THEN rstrip(SubSeq(string, 1, Len(string) - 1), ch)
    ELSE string
RECURSIVE lstrip(_, _)
lstrip(string, ch) ==
    IF string # << >> /\ Head(string) = ch THEN lstrip(Tail(string), ch) ELSE string
\* string.replace(old, "")
replace(string, old) == SelectSeq(string, LAMBDA piece : piece # old)
\* string.startswith(prefix), both plain strings
path_startswith(string, prefix) ==
    Len(prefix) <= Len(string) /\ SubSeq(string, 1, Len(prefix)) = prefix
\* method.upper()
upper(method) ==
    CASE method = "post" -> "POST"
      [] method = "get" -> "GET"
      [] OTHER -> method
\* the truth value of an Optional[str]: None and "" are false
Truthy(o) == ~IsNone(o) /\ The(o) # << >>
\* the truth value of an Optional module name
TruthyName(o) == ~IsNone(o) /\ The(o) # ""

\* an APIRoute of an APIRouter: its path, its methods and its handler
APIRoute(path, methods, endpoint) == [path |-> path, methods |-> methods, endpoint |-> endpoint]
\* APIRouter.routes of the in-process modules, in the order of registration
Routes ==
    << APIRoute(<<"/", "api", "/", "x">>, {"POST"}, "h_x"),
       APIRoute(<<"/", "api", "/", "x", "/", "y">>, {"POST", "GET"}, "h_xy"),
       APIRoute(<<"/", "api", "/", "z", "/", "{", "id", "}">>, {"GET"}, "h_z") >>

\* ModuleRegistration.__init__; oid tells one object from another
ModuleRegistration(oid, module_name, base_path, router, service_url, health_check_endpoint) ==
    [oid |-> oid, module_name |-> module_name, base_path |-> base_path, router |-> router,
     service_url |-> service_url, health_check_endpoint |-> health_check_endpoint,
     healthy |-> TRUE, last_health_check |-> None]

\* what register_module, route_request and check_health are called with
ModuleNames == {"svc", "ext"}
ServiceNames == ModuleNames \cup {"nosvc"}
BasePath == <<"/", "api", "/">>
Routers == {None, Some(Routes)}
ServiceUrls == {None, Some(<<"http://up", "/">>)}
HealthEndpoints == {None, Some(<<"/", "health">>)}
Endpoints == { <<"/", "x">>, <<"x", "/", "y">>, <<"/", "x", "y">>, <<"/", "z", "/", "id">>,
               <<"/", "w">> }
Methods == {"POST", "get", "PATCH"}
\* what the awaited route handler does: returns a dict, a model with .dict(),
\* any other value, or raises
HandlerOutcomes == [kind : {"handler"}, status : {0}, body : {"dict", "model", "scalar", "raise"}]
\* what the HTTP client call does: raises a transport error, or returns a
\* response with a status and a body that is a JSON object or not JSON
Upstreams ==
    {[kind |-> "transport", status |-> 0, body |-> ""]} \cup
    [kind : {"response"}, status : {200, 204, 301, 404, 500}, body : {"mapping", "not json"}]
\* no handler and no upstream is reached
NoOutcome == [kind |-> "none", status |-> 0, body |-> ""]
HealthUpstreams ==
    {[kind |-> "transport", status |-> 0, body |-> ""]} \cup
    [kind : {"response"}, status : {200, 204, 500}, body : {""}]

\* the slots of the dict that hold an entry (a deleted entry leaves its slot
\* empty; a new key takes a new slot at the end; the dict is never rebuilt
\* within MaxRegistrations insertions)
Live(mods) == {i \in 1..Len(mods) : ~IsNone(mods[i])}
SlotsOf(mods, module_name) == {i \in Live(mods) : The(mods[i]).module_name = module_name}
Registered == {The(modules[i]).module_name : i \in Live(modules)}
\* self.modules.get(module_name)
get_module(module_name) ==
    IF SlotsOf(modules, module_name) = {} THEN None
    ELSE modules[CHOOSE i \in SlotsOf(modules, module_name) : TRUE]

\* the errors of the router
NoTargetError(service) == Exception("Module has no router or service_url configured", 0, service, 0)
NoRouteError(method) == Exception("No route found", 0, method, 0)
UnsupportedMethodError(method) == Exception("Unsupported method", 0, method, 0)
HandlerError(endpoint) == Exception("handler raised", 0, endpoint, 0)
TransportError == Exception("httpx.TransportError", 0, "", 0)
HTTPStatusError(status) == Exception("httpx.HTTPStatusError", status, "", 0)
JSONDecodeError == Exception("json.JSONDecodeError", 0, "", 0)
KeyError(module_name) == Exception("KeyError", 0, module_name, 0)
RuntimeError == Exception("dictionary changed size during iteration", 0, "", 0)

\* what a route_request call did: the handlers it invoked, the HTTP requests
\* it sent, and the mapping it returned or the exception it raised
Outcome(invoked, requests, raised, result) ==
    [invoked |-> invoked, requests |-> requests, raised |-> raised, result |-> result]
Raises(error) == Outcome(<< >>, << >>, Some(error), None)
\* the mapping a dispatch returns: where it comes from, and whether the value
\* was wrapped as {"result": value}
ResultMapping(kind, origin, wrapped) == [kind |-> kind, origin |-> origin, wrapped |-> wrapped]

\* ModuleRouter._route_matches
route_matches(route, path, method) ==
    IF upper(method) \notin route.methods THEN FALSE
    ELSE LET route_path == replace(replace(route.path, "{"), "}")
         IN path_startswith(path, rstrip(route_path, "/"))

\* for route in module.router.routes: the first route that matches, 0 if none
RECURSIVE FirstMatch(_, _, _, _)
FirstMatch(routes, i, full_path, method) ==
    IF i > Len(routes) THEN 0
    ELSE IF route_matches(routes[i], full_path, method) THEN i
    ELSE FirstMatch(routes, i + 1, full_path, method)

\* ModuleRouter._route_internal
route_internal(module, endpoint, method, handler_outcome) ==
    LET full_path == rstrip(module.base_path, "/") \o <<"/">> \o lstrip(endpoint, "/")
        routes == The(module.router)
        i == FirstMatch(routes, 1, full_path, method)
    IN IF i = 0 THEN Raises(NoRouteError(method))
       ELSE LET handler == routes[i].endpoint
            IN IF handler_outcome.body = "raise"
               THEN Outcome(<<handler>>, << >>, Some(HandlerError(handler)), None)
               ELSE Outcome(<<handler>>, << >>, None,
                            Some(ResultMapping(handler_outcome.body, handler,
                                               handler_outcome.body = "scalar")))

\* a status check that raises for 4xx and 5xx only
raise_for_client_or_server_error(status) == status \in 400..599

\* response.raise_for_status() raises httpx.HTTPStatusError for every status
\* that is not 2xx
raise_for_status(status) == status \notin 200..299

\* ModuleRouter._route_external
route_external(module, endpoint, method, upstream) ==
    LET url == rstrip(The(module.service_url), "/") \o <<"/">> \o lstrip(endpoint, "/")
        verb == upper(method)
        request == [verb |-> verb, url |-> url,
                    carrier |-> IF verb \in {"GET", "DELETE"} THEN "params" ELSE "json"]
    IN IF verb \notin {"GET", "POST", "PUT", "DELETE"}
       THEN Raises(UnsupportedMethodError(method))
       ELSE IF upstream.kind = "transport"
       THEN Outcome(<< >>, <<request>>, Some(TransportError), None)
       ELSE IF raise_for_status(upstream.status)
       THEN Outcome(<< >>, <<request>>, Some(HTTPStatusError(upstream.status)), None)
       ELSE IF upstream.body # "mapping"
       THEN Outcome(<< >>, <<request>>, Some(JSONDecodeError), None)
       ELSE Outcome(<< >>, <<request>>, None,
                    Some(ResultMapping("json", "upstream", FALSE)))

\* ModuleRouter.check_health before it is called
IdleHealth ==
    [pc |-> "idle", module_name |-> None, listed |-> FALSE, pos |-> 0, used |-> 0,
     probing |-> None, results |-> << >>, raised |-> None, called_with |-> {},
     visited |-> << >>]

\* Orchestrator.__init__ with an empty store, and a ModuleRouter with the
\* in-process module "svc" registered
\* ------------------------------------------------------------ StateManager
\* src/powernode/gateway/state.py.  Every method modelled here runs under
\* self._lock and awaits nothing: each is one atomic step.  Strings are
\* sequences of pieces so that the separator ":" can occur inside a key or a
\* namespace.  The clock counts seconds; several calls can read the same
\* instant.  ISO texts of instants compare like the instants, so expires_at
\* is kept as a number.  The table state_history is only ever written by
\* these methods and is left out.
CacheSize == 2
MaxTime == 2
Namespaces == {<<"a">>, <<"a", ":", "b">>}
Keys == {<<"k">>, <<"b", ":", "k">>}
Payloads == {"v1"}
Ttls == {None, Some(0), Some(1)}

\* StateManager._make_key: f"{namespace}:{key}"
make_key(key, namespace) == namespace \o <<":">> \o key
FullKeys == {make_key(key, namespace) : key \in Keys, namespace \in Namespaces}

\* The value handed to set, with the instant and the ttl of that call: a
\* value tells when it was stored and for how long.
Stored(payload, ttl, at) == [payload |-> payload, ttl |-> ttl, at |-> at]
\* StateManager._serialize_value and _deserialize_value: pickle of a
\* picklable value, and back
serialize_value(value) == [pickled |-> value]
deserialize_value(data) == data.pickled

\* A Python dict: its entries in insertion order.
DictKeys(d) == {d[i].key : i \in DOMAIN d}
DictGet(d, k) == d[CHOOSE i \in DOMAIN d : d[i].key = k].value
\* d[k] = v: an existing key keeps its place
DictSet(d, k, v) ==
    IF k \in DictKeys(d)
    THEN [i \in DOMAIN d |-> IF d[i].key = k THEN [key |-> k, value |-> v] ELSE d[i]]
    ELSE Append(d, [key |-> k, value |-> v])
\* del d[k]
DictDel(d, k) == SelectSeq(d, LAMBDA entry : entry.key # k)
\* min(d.items(), key=lambda x: x[1])[0]: the first of the least entries
MinItemKey(d) ==
    LET i == CHOOSE i \in DOMAIN d :
                 /\ \A j \in DOMAIN d : d[i].value <= d[j].value
                 /\ \A j \in 1..(i - 1) : d[i].value < d[j].value
    IN d[i].key

\* a row of the table state: value, namespace, expires_at (key is the
\* primary key: the table is a mapping from the full key)
Row(value, namespace, expires_at) ==
    [value |-> value, namespace |-> namespace, expires_at |-> expires_at]
\* WHERE key = ? AND (expires_at IS NULL OR expires_at > ?)
SelectLive(db, full_key, now) ==
    IF ~IsNone(db[full_key])
       /\ (IsNone(The(db[full_key]).expires_at) \/ The(The(db[full_key]).expires_at) > now)
    THEN db[full_key]
    ELSE None

\* what the last call of the StateManager returned, if it was a get: the
\* value or the default (None), and the instant of the call
Returned(op, value, at) == [op |-> op, value |-> value, at |-> at]
NoCall == Returned("", None, 0)

\* StateManager.__init__ with an empty database
NewStateManager ==
    [cache_size |-> CacheSize,
     cache |-> << >>,
     cache_timestamps |-> << >>,
     db |-> [full_key \in FullKeys |-> None],
     now |-> 0,
     returned |-> NoCall]

Init ==
    /\ heap = << >>
    /\ workflows = [id \in WorkflowIds |-> 0]
    /\ state_manager = [k \in StoreKeys |-> None]
    /\ lock = FALSE
    /\ exec = [e \in Execs |-> IdleExec]
    /\ restarts = 0
    /\ reply = None
    /\ modules = <<Some(ModuleRegistration(1, "svc", BasePath, Some(Routes), None, None))>>
    /\ registrations = 1
    /\ dispatched = None
    /\ health = IdleHealth
    /\ manager = NewStateManager

\* async with self._lock: acquired on entry, released on every way out
LockAcquire(l) == TRUE
\* a way out of the block that leaves the lock as it is
LockKept(l) == l
LockRelease(l) == FALSE

\* ------------------------------------------------------ create_workflow
create_workflow(id, d) ==
    /\ ~lock
    /\ LET workflow_steps == [i \in 1..Len(d.steps) |-> Step(d.steps[i])]
           workflow == Workflow(id, d.name, workflow_steps)
       IN /\ heap' = Append(heap, workflow)
          /\ workflows' = [workflows EXCEPT ![id] = Len(heap) + 1]
          /\ state_manager' = [state_manager EXCEPT
                                 ![DefKey(id)] = Some(PersistedDefinition(d.name, workflow_steps))]
    /\ lock' = LockRelease(LockAcquire(lock))
    /\ reply' = None /\ UNCHANGED <<router_vars, manager>>
    /\ UNCHANGED <<exec, restarts>>

\* ------------------------------------------------------ execute_workflow
\* datetime.utcnow() and datetime.isoformat(): the instants themselves are not
\* modelled, only that one was taken and that the persisted form is its text.
utcnow == "t"
isoformat(t) == [iso |-> t]
IsoOrNone(o) == IF IsNone(o) THEN None ELSE Some(isoformat(The(o)))

\* a scheduler that does not look at depends_on
DependenciesMetAlways(step, executed_steps) == TRUE

\* all(dep in executed_steps for dep in step.depends_on)
DependenciesMet(step, executed_steps) ==
    \A i \in 1..Len(step.depends_on) : step.depends_on[i] \in executed_steps

\* ready_steps = [step for step in workflow.steps.values() if ...], by name,
\* in the order of workflow.steps
RECURSIVE ReadyFrom(_, _, _)
ReadyFrom(w, executed_steps, i) ==
    IF i > Len(w.steps) THEN << >>
    ELSE LET step == w.steps[i]
             rest == ReadyFrom(w, executed_steps, i + 1)
         IN IF step.name \notin executed_steps /\ DependenciesMet(step, executed_steps)
            THEN <<step.name>> \o rest
            ELSE rest
\* a ready set that holds every step not yet executed
RECURSIVE PendingFrom(_, _, _)
PendingFrom(w, executed_steps, i) ==
    IF i > Len(w.steps) THEN << >>
    ELSE IF w.steps[i].name \notin executed_steps
         THEN <<w.steps[i].name>> \o PendingFrom(w, executed_steps, i + 1)
         ELSE PendingFrom(w, executed_steps, i + 1)
ReadyStepsAllPending(w, executed_steps) == PendingFrom(w, executed_steps, 1)

ReadySteps(w, executed_steps) == ReadyFrom(w, executed_steps, 1)

\* the coroutines handed to asyncio.gather, one per ready step, not yet started
NewTasks(ready_steps) ==
    [s \in Range(ready_steps) |->
        [pc |-> "new", retries |-> 0, last_error |-> None, response |-> None,
         resolved_params |-> << >>, attempts |-> 0, sent |-> << >>, handler_calls |-> 0,
         waits |-> << >>]]

\* the record persisted and the mapping returned by execute_workflow
ExecutionRecord(w) ==
    [status |-> w.status, started_at |-> IsoOrNone(w.started_at),
     completed_at |-> IsoOrNone(w.completed_at), result |-> w.result, error |-> w.error]
ReturnValue(workflow_id, w) ==
    [workflow_id |-> workflow_id, status |-> w.status, result |-> w.result, error |-> w.error]

\* a return that skips the state_manager.set of the outcome
FinallyNoPersist(x, w) ==
    [x |-> [x EXCEPT !.pc = "done", !.ret = Some(ReturnValue(x.workflow_id, w))],
     w |-> [w EXCEPT !.completed_at = Some(utcnow)],
     persist |-> None]

\* finally: completed_at, persist the outcome, then return
Finally(x, w) ==
    LET w2 == [w EXCEPT !.completed_at = Some(utcnow)]
    IN [x |-> [x EXCEPT !.pc = "done", !.ret = Some(ReturnValue(x.workflow_id, w2))],
        w |-> w2,
        persist |-> Some(ExecutionRecord(w2))]

\* a handler that leaves the error written before the raise
ExceptHandlerKeepsError(x, w, e) ==
    Finally(x, [w EXCEPT !.status = FAILED])

\* except Exception as e: workflow.status = FAILED; workflow.error = str(e)
ExceptHandler(x, w, e) ==
    Finally(x, [w EXCEPT !.status = FAILED, !.error = Some(str(e))])

\* a completion that does not store the results
MarkCompletedNoResult(x, w) ==
    Finally(x, [w EXCEPT !.status = COMPLETED])

\* after the loop: workflow.status = COMPLETED; workflow.result = results
MarkCompleted(x, w) ==
    Finally(x, [w EXCEPT !.status = COMPLETED, !.result = Some(x.results)])

\* one pass of `while len(executed_steps) < len(workflow.steps)` up to the
\* await of asyncio.gather, or out of the loop to the end of the call
SchedulerLoop(x, w) ==
    IF Cardinality(x.executed_steps) < Len(w.steps)
    THEN LET ready_steps == ReadySteps(w, x.executed_steps)
         IN IF ready_steps = << >>
            THEN ExceptHandler(x, w, DependencyError)
            ELSE [x |-> [x EXCEPT !.pc = "gather", !.ready_steps = ready_steps,
                                  !.tasks = NewTasks(ready_steps), !.batches = @ + 1],
                  w |-> w,
                  persist |-> None]
    ELSE MarkCompleted(x, w)

\* the lookup under the lock: the table entry, else the persisted definition
\* rebuilt into a new Workflow that is put into the table
\* a start that counts as executed the steps an earlier run left COMPLETED
CompletedEarlier(w) == {w.steps[i].name : i \in {j \in 1..Len(w.steps) : w.steps[j].status = COMPLETED}}

\* executed_steps = set(), whatever the workflow went through before
InitialExecutedSteps(w) == {}

\* `x or default` for an Optional x
Or(o, default) == IF IsNone(o) THEN default ELSE The(o)

\* a rebuild that takes every retry_count to be the default
RehydrateDefaults(id, workflow_data) ==
    Workflow(id, workflow_data.name,
             [i \in 1..Len(workflow_data.steps) |->
                 Step([workflow_data.steps[i] EXCEPT !.retry_count = 0])])

Rehydrate(id, workflow_data) ==
    Workflow(id, workflow_data.name,
             [i \in 1..Len(workflow_data.steps) |-> Step(workflow_data.steps[i])])

execute_workflow(e, id, initial_context) ==
    /\ exec[e].pc = "idle"
    /\ \A f \in Execs : f < e => exec[f].pc # "idle"
    /\ ~lock
    /\ reply' = None /\ UNCHANGED <<router_vars, manager>>
    /\ LET workflow_data == state_manager[DefKey(id)]
       IN IF workflows[id] = 0 /\ IsNone(workflow_data)
          THEN \* raise ValueError(f"Workflow {workflow_id} not found")
               /\ exec' = [exec EXCEPT ![e] = [@ EXCEPT !.pc = "raised", !.workflow_id = id,
                                                        !.raised = Some(NotFoundError)]]
               /\ lock' = LockRelease(LockAcquire(lock))
               /\ UNCHANGED <<heap, workflows, state_manager, restarts>>
          ELSE /\ workflows[id] = 0 => Len(heap) < MaxWorkflows
               /\ LET heap1 == IF workflows[id] # 0 THEN heap
                               ELSE Append(heap, Rehydrate(id, The(workflow_data)))
                      ref == IF workflows[id] # 0 THEN workflows[id] ELSE Len(heap) + 1
                      w0 == [heap1[ref] EXCEPT !.status = RUNNING, !.started_at = Some(utcnow)]
                      x0 == [exec[e] EXCEPT !.workflow_id = id, !.workflow = ref,
                                            !.context = Or(initial_context, << >>),
                                            !.rehydrated = (workflows[id] = 0),
                                            !.prior_status = heap1[ref].status,
                                            !.prior_completed = CompletedEarlier(heap1[ref]),
                                            !.results = << >>,
                                            !.executed_steps = InitialExecutedSteps(heap1[ref])]
                      r == SchedulerLoop(x0, w0)
                  IN /\ heap' = [heap1 EXCEPT ![ref] = r.w]
                     /\ workflows' = [workflows EXCEPT ![id] = ref]
                     /\ exec' = [exec EXCEPT ![e] = r.x]
                     /\ state_manager' = IF IsNone(r.persist) THEN state_manager
                                         ELSE [state_manager EXCEPT ![ExecKey(id)] = r.persist]
                     /\ lock' = LockRelease(LockAcquire(lock))
                     /\ UNCHANGED restarts

\* ------------------------------------------------------- _resolve_params
\* value.startswith("${") and value.endswith("}")
startswith(value, piece) == Len(value.s) >= 1 /\ value.s[1] = piece
endswith(value, piece) == Len(value.s) >= 1 /\ value.s[Len(value.s)] = piece
\* ref = value[2:-1]
Ref(value) == SubSeq(value.s, 2, Len(value.s) - 1)
\* "." in ref, and ref.split(".", 1)
HasDot(ref) == \E i \in 1..Len(ref) : ref[i] = "."
FirstDot(ref) == CHOOSE i \in 1..Len(ref) : ref[i] = "." /\ \A j \in 1..(i - 1) : ref[j] # "."
SplitStepName(ref) == SubSeq(ref, 1, FirstDot(ref) - 1)
SplitResultKey(ref) == SubSeq(ref, FirstDot(ref) + 1, Len(ref))
\* `name in d` and d.get(name) for a str given by its pieces: the keys of the
\* mappings modelled are strings of one piece
In(name, d) == Len(name) = 1 /\ name[1] \in DOMAIN d
Get(d, name) == IF In(name, d) THEN d[name[1]] ELSE NoneValue

\* the resolution that reaches every str at any depth: it also descends into
\* the str and list elements of a list
RECURSIVE ResolveDeep(_, _)
ResolveDeep(value, results) ==
    IF isinstance(value, "str") /\ startswith(value, "${") /\ endswith(value, "}")
    THEN IF HasDot(Ref(value)) /\ In(SplitStepName(Ref(value)), results)
         THEN Get(results[SplitStepName(Ref(value))[1]], SplitResultKey(Ref(value)))
         ELSE value
    ELSE IF isinstance(value, "dict")
    THEN DictValue([key \in DOMAIN value.d |-> ResolveDeep(value.d[key], results)])
    ELSE IF isinstance(value, "list")
    THEN ListValue([i \in 1..Len(value.l) |-> ResolveDeep(value.l[i], results)])
    ELSE value

\* a resolution that turns every reference it cannot resolve into None
ResolveReferenceOrNone(value, ref, results) ==
    IF HasDot(ref) /\ In(SplitStepName(ref), results)
    THEN Get(results[SplitStepName(ref)[1]], SplitResultKey(ref))
    ELSE NoneValue

\* the branch taken for a str of the form ${...}
ResolveReference(value, ref, results) ==
    IF HasDot(ref)
    THEN IF In(SplitStepName(ref), results)
         THEN Get(results[SplitStepName(ref)[1]], SplitResultKey(ref))
         ELSE value
    ELSE value

\* a resolution that hands the parameters on as they are
resolve_params_verbatim(params, results) == params

RECURSIVE resolve_params(_, _)
resolve_params(params, results) ==
    [key \in DOMAIN params |->
        LET value == params[key]
        IN IF isinstance(value, "str") /\ startswith(value, "${") /\ endswith(value, "}")
           THEN ResolveReference(value, Ref(value), results)
           ELSE IF isinstance(value, "dict")
           THEN DictValue(resolve_params(value.d, results))
           ELSE IF isinstance(value, "list")
           THEN ListValue([i \in 1..Len(value.l) |->
                             IF isinstance(value.l[i], "dict")
                             THEN DictValue(resolve_params(value.l[i].d, results))
                             ELSE value.l[i]])
           ELSE value]

\* -------------------------------------------------------- _execute_step
\* a write to a step that also puts its retry_count back to the default
SetStepResettingRetries(w, name, f) ==
    [w EXCEPT !.steps[StepIndex(w, name)] = [f EXCEPT !.retry_count = 0]]

\* the step `name` of w becomes f: the writes to the attributes of a Step
SetStep(w, name, f) == [w EXCEPT !.steps[StepIndex(w, name)] = f]

\* d.update(other)
update(d, other) == other @@ d

\* a layering in which the caller's context comes last
MergedParamsContextLast(context, previous_results, step_params) ==
    update(update(update(<< >>, [s \in DOMAIN previous_results |->
                                   DictValue(previous_results[s])]),
                  step_params),
           context)

\* params = {}; params.update(context); params.update(previous_results);
\* params.update(step.params)
MergedParams(context, previous_results, step_params) ==
    update(update(update(<< >>, context),
                  [s \in DOMAIN previous_results |-> DictValue(previous_results[s])]),
           step_params)

\* a router that hands every request to a handler, registered or not
route_request_unchecked(service, e, s, k, ok) ==
    IF ok
    THEN [raised |-> None, response |-> Some(Response(e, s, k)), handler_calls |-> 1]
    ELSE [raised |-> Some(DispatchError(e, s, k)), response |-> None, handler_calls |-> 1]

\* router.route_request: a service that is not registered raises before any
\* handler or HTTP call; otherwise the module's handler or the HTTP call is
\* made, and returns a response (ok) or raises.
route_request(service, e, s, k, ok) ==
    IF IsNone(get_module(service))
    THEN [raised |-> Some(ServiceNotFoundError(service)), response |-> None, handler_calls |-> 0]
    ELSE IF ok
    THEN [raised |-> None, response |-> Some(Response(e, s, k)), handler_calls |-> 1]
    ELSE [raised |-> Some(DispatchError(e, s, k)), response |-> None, handler_calls |-> 1]

\* while retries <= step.retry_count
RetryLoopContinues(retries, retry_count) == retries <= retry_count

\* a retry test that is off by one
RetryAllowedStrict(retries, retry_count) == retries < retry_count

\* in the except clause: if retries <= step.retry_count: sleep, else: raise
RetryAllowed(retries, retry_count) == retries <= retry_count

\* a backoff of one time unit whatever the attempt
backoff_constant(retries) == 1

\* await asyncio.sleep(1 * retries): the delay asked for
backoff(retries) == 1 * retries

\* the task ends with `raise` (the exception just caught) or, after the loop,
\* with `raise last_error`
TaskRaises(t) ==
    [t EXCEPT !.pc = "err",
              !.last_error = IF IsNone(t.last_error) THEN Some(RaiseNoneError) ELSE @]

\* await self.router.route_request(..., params=resolved_params, ...): one more
\* dispatch attempt is made, with the parameters resolved before the loop
Dispatch(t) ==
    [t EXCEPT !.pc = "dispatch", !.attempts = @ + 1, !.sent = Append(@, t.resolved_params)]

\* a task that is handed, with the results of the earlier batches, the
\* responses its siblings of the same batch have received so far
start_step_seeing_siblings(e, s) ==
    LET x == exec[e]
        w == heap[x.workflow]
        step == StepOf(w, s)
        k == CHOOSE i \in 1..Len(x.ready_steps) : x.ready_steps[i] = s
        ended == {u \in DOMAIN x.tasks : x.tasks[u].pc = "ok"}
        previous_results == [u \in ended |-> The(x.tasks[u].response)] @@ x.results
        params == MergedParams(x.context, previous_results, step.params)
        resolved_params == resolve_params(params, previous_results)
    IN /\ x.pc = "gather"
       /\ s \in DOMAIN x.tasks
       /\ x.tasks[s].pc = "new"
       /\ \A i \in 1..(k - 1) : x.tasks[x.ready_steps[i]].pc # "new"
       /\ heap' = [heap EXCEPT ![x.workflow] =
                     SetStep(w, s, [step EXCEPT !.started_at = Some(utcnow), !.status = RUNNING])]
       /\ exec' = [exec EXCEPT ![e] =
                     [x EXCEPT !.launched = @ \cup {s},
                               !.tasks[s] =
                                  IF RetryLoopContinues(0, step.retry_count)
                                  THEN Dispatch([@ EXCEPT !.resolved_params = resolved_params])
                                  ELSE TaskRaises([@ EXCEPT !.resolved_params = resolved_params])]]
       /\ reply' = None /\ UNCHANGED <<router_vars, manager>>
       /\ UNCHANGED <<workflows, state_manager, lock, restarts>>

\* a task that starts only when the tasks before it in the batch have ended
start_step_sequential(e, s) ==
    LET x == exec[e]
        w == heap[x.workflow]
        step == StepOf(w, s)
        k == CHOOSE i \in 1..Len(x.ready_steps) : x.ready_steps[i] = s
        params == MergedParams(x.context, x.results, step.params)
        resolved_params == resolve_params(params, x.results)
    IN /\ x.pc = "gather"
       /\ s \in DOMAIN x.tasks
       /\ x.tasks[s].pc = "new"
       /\ \A i \in 1..(k - 1) : x.tasks[x.ready_steps[i]].pc \in {"ok", "err"}
       /\ heap' = [heap EXCEPT ![x.workflow] =
                     SetStep(w, s, [step EXCEPT !.started_at = Some(utcnow), !.status = RUNNING])]
       /\ exec' = [exec EXCEPT ![e] =
                     [x EXCEPT !.launched = @ \cup {s},
                               !.tasks[s] =
                                  IF RetryLoopContinues(0, step.retry_count)
                                  THEN Dispatch([@ EXCEPT !.resolved_params = resolved_params])
                                  ELSE TaskRaises([@ EXCEPT !.resolved_params = resolved_params])]]
       /\ reply' = None /\ UNCHANGED <<router_vars, manager>>
       /\ UNCHANGED <<workflows, state_manager, lock, restarts>>

\* The task of step s starts: started_at, status RUNNING, the parameters are
\* built, and the first dispatch is awaited.  Tasks of one gather start in
\* the order they were handed over (the event loop's queue is first in,
\* first out).
start_step(e, s) ==
    LET x == exec[e]
        w == heap[x.workflow]
        step == StepOf(w, s)
        k == CHOOSE i \in 1..Len(x.ready_steps) : x.ready_steps[i] = s
        params == MergedParams(x.context, x.results, step.params)
        resolved_params == resolve_params(params, x.results)
    IN /\ x.pc = "gather"
       /\ s \in DOMAIN x.tasks
       /\ x.tasks[s].pc = "new"
       /\ \A i \in 1..(k - 1) : x.tasks[x.ready_steps[i]].pc # "new"
       /\ heap' = [heap EXCEPT ![x.workflow] =
                     SetStep(w, s, [step EXCEPT !.started_at = Some(utcnow), !.status = RUNNING])]
       /\ exec' = [exec EXCEPT ![e] =
                     [x EXCEPT !.launched = @ \cup {s},
                               !.tasks[s] =
                                  IF RetryLoopContinues(0, step.retry_count)
                                  THEN Dispatch([@ EXCEPT !.resolved_params = resolved_params])
                                  ELSE TaskRaises([@ EXCEPT !.resolved_params = resolved_params])]]
       /\ reply' = None /\ UNCHANGED <<router_vars, manager>>
       /\ UNCHANGED <<workflows, state_manager, lock, restarts>>

\* The awaited router.route_request returns a response or raises.
dispatch_returns(e, s, ok) ==
    LET x == exec[e]
        w == heap[x.workflow]
        step == StepOf(w, s)
        t == x.tasks[s]
        r == route_request(step.service, e, s, t.attempts, ok)
    IN /\ x.pc = "gather"
       /\ s \in DOMAIN x.tasks
       /\ t.pc = "dispatch"
       /\ IF IsNone(r.raised)
          THEN \* step.completed_at = utcnow(); return response
               /\ heap' = [heap EXCEPT ![x.workflow] =
                             SetStep(w, s, [step EXCEPT !.completed_at = Some(utcnow)])]
               /\ exec' = [exec EXCEPT ![e] =
                             [x EXCEPT !.dispatched_ok = (s :> The(r.response)) @@ @,
                                       !.tasks[s] = [t EXCEPT !.pc = "ok",
                                                       !.handler_calls = @ + r.handler_calls,
                                                       !.response = r.response]]]
          ELSE \* except: last_error = e; retries += 1; sleep, or raise
               /\ LET retries == t.retries + 1
                  IN exec' = [exec EXCEPT ![e] =
                               [x EXCEPT !.tasks[s] =
                                  [t EXCEPT !.last_error = r.raised,
                                            !.handler_calls = @ + r.handler_calls,
                                            !.retries = retries,
                                            !.waits = IF RetryAllowed(retries, step.retry_count)
                                                      THEN Append(@, backoff(retries)) ELSE @,
                                            !.pc = IF RetryAllowed(retries, step.retry_count)
                                                   THEN "sleep" ELSE "err"]]]
               /\ UNCHANGED heap
       /\ reply' = None /\ UNCHANGED <<router_vars, manager>>
       /\ UNCHANGED <<workflows, state_manager, lock, restarts>>

\* asyncio.sleep(1 * retries) is over: back to the head of the while loop
backoff_over(e, s) ==
    LET x == exec[e]
        step == StepOf(heap[x.workflow], s)
        t == x.tasks[s]
    IN /\ x.pc = "gather"
       /\ s \in DOMAIN x.tasks
       /\ t.pc = "sleep"
       /\ exec' = [exec EXCEPT ![e] =
                     [x EXCEPT !.tasks[s] =
                        IF RetryLoopContinues(t.retries, step.retry_count)
                        THEN Dispatch(t)
                        ELSE TaskRaises(t)]]
       /\ reply' = None /\ UNCHANGED <<router_vars, manager>>
       /\ UNCHANGED <<heap, workflows, state_manager, lock, restarts>>

\* ------------------------------------------------ the batch has settled
\* a scheduler that marks the failed step and goes on with the next batches
RECURSIVE InspectOutcomesContinuing(_, _, _)
InspectOutcomesContinuing(x, w, i) ==
    IF i > Len(x.ready_steps) THEN [x |-> x, w |-> w, raised |-> None]
    ELSE LET s == x.ready_steps[i]
             t == x.tasks[s]
             step == StepOf(w, s)
         IN IF t.pc = "err"
            THEN InspectOutcomesContinuing(
                     [x EXCEPT !.failed_step = Some(s), !.executed_steps = @ \cup {s}],
                     [SetStep(w, s, [step EXCEPT !.status = FAILED,
                                                 !.error = Some(str(The(t.last_error)))])
                        EXCEPT !.error = Some(StepFailedMsg(s, str(The(t.last_error))))],
                     i + 1)
            ELSE InspectOutcomesContinuing(
                     [x EXCEPT !.results = (s :> The(t.response)) @@ @,
                               !.executed_steps = @ \cup {s},
                               !.completed_marks = @ \cup {s}],
                     SetStep(w, s, [step EXCEPT !.status = COMPLETED,
                                                !.result = t.response]),
                     i + 1)

\* for step, result in zip(ready_steps, step_results): the first exception
\* marks its step and the workflow FAILED and is raised; a result marks its
\* step COMPLETED and is recorded.
RECURSIVE InspectOutcomes(_, _, _)
InspectOutcomes(x, w, i) ==
    IF i > Len(x.ready_steps) THEN [x |-> x, w |-> w, raised |-> None]
    ELSE LET s == x.ready_steps[i]
             t == x.tasks[s]
             step == StepOf(w, s)
         IN IF t.pc = "err"
            THEN LET result == The(t.last_error)
                 IN [x |-> [x EXCEPT !.failed_step = Some(s)],
                     w |-> [SetStep(w, s, [step EXCEPT !.status = FAILED,
                                                       !.error = Some(str(result))])
                              EXCEPT !.status = FAILED,
                                     !.error = Some(StepFailedMsg(s, str(result)))],
                     raised |-> Some(result)]
            ELSE LET result == The(t.response)
                 IN InspectOutcomes(
                        [x EXCEPT !.results = (s :> result) @@ @,
                                  !.executed_steps = @ \cup {s},
                                  !.completed_marks = @ \cup {s}],
                        SetStep(w, s, [step EXCEPT !.status = COMPLETED,
                                                   !.result = Some(result)]),
                        i + 1)

\* a gather that returns as soon as one task has ended, with the outcomes so
\* far, while the other tasks of the batch are still running
gather_first_completed(e) ==
    LET x == exec[e]
        w == heap[x.workflow]
        settled == SelectSeq(x.ready_steps, LAMBDA s : x.tasks[s].pc \in {"ok", "err"})
    IN /\ x.pc = "gather"
       /\ settled # << >>
       /\ LET o == InspectOutcomes([x EXCEPT !.ready_steps = settled], w, 1)
              r == IF IsNone(o.raised) THEN SchedulerLoop(o.x, o.w)
                   ELSE ExceptHandler(o.x, o.w, The(o.raised))
          IN /\ heap' = [heap EXCEPT ![x.workflow] = r.w]
             /\ exec' = [exec EXCEPT ![e] = r.x]
             /\ state_manager' = IF IsNone(r.persist) THEN state_manager
                                 ELSE [state_manager EXCEPT ![ExecKey(x.workflow_id)] = r.persist]
       /\ reply' = None /\ UNCHANGED <<router_vars, manager>>
       /\ UNCHANGED <<workflows, lock, restarts>>

\* a gather that raises the first exception of a task to the scheduler while
\* the other tasks of the batch are still running
gather_first_exception(e) ==
    LET x == exec[e]
        w == heap[x.workflow]
        failed == {s \in DOMAIN x.tasks : x.tasks[s].pc = "err"}
    IN /\ x.pc = "gather"
       /\ failed # {} \/ \A s \in DOMAIN x.tasks : x.tasks[s].pc = "ok"
       /\ LET o == InspectOutcomes(x, w, 1)
              r == IF failed # {}
                   THEN ExceptHandler(x, w, The(x.tasks[CHOOSE s \in failed : TRUE].last_error))
                   ELSE SchedulerLoop(o.x, o.w)
          IN /\ heap' = [heap EXCEPT ![x.workflow] = r.w]
             /\ exec' = [exec EXCEPT ![e] = r.x]
             /\ state_manager' = IF IsNone(r.persist) THEN state_manager
                                 ELSE [state_manager EXCEPT ![ExecKey(x.workflow_id)] = r.persist]
       /\ reply' = None /\ UNCHANGED <<router_vars, manager>>
       /\ UNCHANGED <<workflows, lock, restarts>>

\* asyncio.gather returns once every task of the batch has returned or raised
gather_returns(e) ==
    LET x == exec[e]
        w == heap[x.workflow]
    IN /\ x.pc = "gather"
       /\ \A s \in DOMAIN x.tasks : x.tasks[s].pc \in {"ok", "err"}
       /\ LET o == InspectOutcomes(x, w, 1)
              r == IF IsNone(o.raised) THEN SchedulerLoop(o.x, o.w)
                   ELSE ExceptHandler(o.x, o.w, The(o.raised))
          IN /\ heap' = [heap EXCEPT ![x.workflow] = r.w]
             /\ exec' = [exec EXCEPT ![e] = r.x]
             /\ state_manager' = IF IsNone(r.persist) THEN state_manager
                                 ELSE [state_manager EXCEPT ![ExecKey(x.workflow_id)] = r.persist]
       /\ reply' = None /\ UNCHANGED <<router_vars, manager>>
       /\ UNCHANGED <<workflows, lock, restarts>>

\* ------------------------------- POST /api/v1/workflows/{workflow_id}/execute
\* The answer of the gateway endpoint to the call x once it has ended: the
\* handler returns what Orchestrator.execute_workflow returned, which is sent
\* with status 200; an exception of the call is not caught by the handler and
\* is answered 500 by the framework.
execute_workflow_endpoint(x) ==
    IF x.pc = "done"
    THEN [status_code |-> 200, content |-> x.ret]
    ELSE [status_code |-> 500, content |-> None]

\* ------------------------------------------------------------- restart
\* The process is started anew on the same persisted store: Orchestrator.__init__
\* gives an empty table; no call is in flight.
restart ==
    /\ restarts < MaxRestart
    /\ \A e \in Execs : exec[e].pc # "gather"
    /\ workflows # [id \in WorkflowIds |-> 0]
    /\ workflows' = [id \in WorkflowIds |-> 0]
    /\ lock' = FALSE
    /\ restarts' = restarts + 1
    /\ reply' = None /\ UNCHANGED <<router_vars, manager>>
    /\ UNCHANGED <<heap, state_manager, exec>>

\* ---------------------------------------------------- get_workflow_status
\* the record built from the in-memory workflow
StatusRecord(workflow_id, w) ==
    [workflow_id |-> workflow_id, name |-> w.name, status |-> w.status,
     started_at |-> IsoOrNone(w.started_at), completed_at |-> IsoOrNone(w.completed_at),
     result |-> w.result, error |-> w.error]

\* what the call returns: the record of the workflow in the table, else the
\* persisted outcome record, else None
StatusOf(workflow_id) ==
    IF workflows[workflow_id] # 0
    THEN Some(StatusRecord(workflow_id, heap[workflows[workflow_id]]))
    ELSE state_manager[ExecKey(workflow_id)]

\* a lookup that drops the workflow from the table once it has answered
get_workflow_status_evicting(workflow_id) ==
    /\ reply' = Some([workflow_id |-> workflow_id, value |-> StatusOf(workflow_id)])
    /\ workflows' = [workflows EXCEPT ![workflow_id] = 0]
    /\ UNCHANGED <<heap, state_manager, lock, exec, restarts>>
    /\ UNCHANGED <<router_vars, manager>>

get_workflow_status(workflow_id) ==
    /\ reply' = Some([workflow_id |-> workflow_id, value |-> StatusOf(workflow_id)])
    /\ UNCHANGED <<heap, workflows, state_manager, lock, exec, restarts>>
    /\ UNCHANGED <<router_vars, manager>>

\* ------------------------------------------------- the module registry
\* ModuleRouter.register_module: a new ModuleRegistration takes the slot of
\* the module of that name, or a new slot
register_module(module_name, base_path, router, service_url, health_check_endpoint) ==
    /\ registrations < MaxRegistrations
    /\ LET registration == ModuleRegistration(registrations + 1, module_name, base_path,
                                              router, service_url, health_check_endpoint)
           slots == SlotsOf(modules, module_name)
       IN modules' = IF slots = {} THEN Append(modules, Some(registration))
                     ELSE [modules EXCEPT ![CHOOSE i \in slots : TRUE] = Some(registration)]
    /\ registrations' = registrations + 1
    /\ dispatched' = None
    /\ UNCHANGED health
    /\ UNCHANGED <<orchestrator_vars, manager>>

\* ModuleRouter.unregister_module: if module_name in self.modules: del
unregister_module(module_name) ==
    /\ LET slots == SlotsOf(modules, module_name)
       IN modules' = IF slots = {} THEN modules
                     ELSE [modules EXCEPT ![CHOOSE i \in slots : TRUE] = None]
    /\ dispatched' = None
    /\ UNCHANGED <<registrations, health>>
    /\ UNCHANGED <<orchestrator_vars, manager>>

\* what the target of the dispatch may do: the handler of an in-process
\* module, the upstream of an external one
DispatchOutcomes(service) ==
    LET module == get_module(service)
    IN IF IsNone(module) THEN {NoOutcome}
       ELSE IF ~IsNone(The(module).router) THEN HandlerOutcomes
       ELSE IF Truthy(The(module).service_url) THEN Upstreams
       ELSE {NoOutcome}

\* ModuleRouter.route_request, from the call to its return or raise
route_request_call(service, endpoint, method, outcome) ==
    /\ outcome \in DispatchOutcomes(service)
    /\ LET module == get_module(service)
           r == IF IsNone(module) THEN Raises(ServiceNotFoundError(service))
                ELSE IF ~IsNone(The(module).router)
                THEN route_internal(The(module), endpoint, method, outcome)
                ELSE IF Truthy(The(module).service_url)
                THEN route_external(The(module), endpoint, method, outcome)
                ELSE Raises(NoTargetError(service))
       IN dispatched' = Some([service |-> service, endpoint |-> endpoint, method |-> method,
                              module |-> module, outcome |-> outcome,
                              invoked |-> r.invoked, requests |-> r.requests,
                              raised |-> r.raised, result |-> r.result])
    /\ UNCHANGED <<modules, registrations, health>>
    /\ UNCHANGED <<orchestrator_vars, manager>>

\* ---------------------------------------------------------- check_health
\* module.healthy = value, seen through the registry if the object is in it
SetHealthy(mods, oid, value) ==
    [i \in 1..Len(mods) |->
        IF ~IsNone(mods[i]) /\ The(mods[i]).oid = oid
        THEN Some([The(mods[i]) EXCEPT !.healthy = value])
        ELSE mods[i]]

\* results[module.module_name] = value
Report(h, module, upstream, value) ==
    [h EXCEPT !.results = (module.module_name :> value) @@ @,
              !.visited = Append(@, [module |-> module, upstream |-> upstream,
                                     reported |-> value])]

\* for module in modules_to_check: from the head of the loop up to the await
\* of a probe, the return, or the RuntimeError of the dict iterator when the
\* dict has changed size since the iteration began
RECURSIVE HealthLoop(_, _)
RECURSIVE Visit(_, _, _)
HealthLoop(h, mods) ==
    IF h.listed
    THEN IF h.pos >= 1 THEN [h |-> [h EXCEPT !.pc = "done"], mods |-> mods]
         ELSE Visit([h EXCEPT !.pos = 1], mods, The(h.probing))
    ELSE IF Cardinality(Live(mods)) # h.used
    THEN [h |-> [h EXCEPT !.pc = "raised", !.raised = Some(RuntimeError)], mods |-> mods]
    ELSE LET rest == {i \in Live(mods) : i > h.pos}
         IN IF rest = {} THEN [h |-> [h EXCEPT !.pc = "done"], mods |-> mods]
            ELSE LET next == CHOOSE i \in rest : \A j \in rest : i <= j
                 IN Visit([h EXCEPT !.pos = next], mods, The(mods[next]))
Visit(h, mods, module) ==
    IF ~IsNone(module.router)
    THEN HealthLoop(Report(h, module, None, TRUE), SetHealthy(mods, module.oid, TRUE))
    ELSE IF Truthy(module.service_url) /\ Truthy(module.health_check_endpoint)
    THEN [h |-> [h EXCEPT !.pc = "probe", !.probing = Some(module)], mods |-> mods]
    ELSE HealthLoop(Report(h, module, None, TRUE), mods)

\* ModuleRouter.check_health(module_name), up to its first await
check_health(module_name) ==
    /\ health.pc # "probe"
    /\ LET h == [IdleHealth EXCEPT !.module_name = module_name, !.called_with = Registered]
           r == IF TruthyName(module_name)
                THEN IF IsNone(get_module(The(module_name)))
                     THEN [h |-> [h EXCEPT !.pc = "raised",
                                           !.raised = Some(KeyError(The(module_name)))],
                           mods |-> modules]
                     ELSE HealthLoop([h EXCEPT !.listed = TRUE,
                                               !.probing = get_module(The(module_name))],
                                     modules)
                ELSE HealthLoop([h EXCEPT !.used = Cardinality(Live(modules))], modules)
       IN health' = r.h /\ modules' = r.mods
    /\ dispatched' = None
    /\ UNCHANGED registrations
    /\ UNCHANGED <<orchestrator_vars, manager>>

\* a probe that takes every 2xx status for healthy
ProbeHealthy2xx(upstream) == upstream.kind = "response" /\ upstream.status \in 200..299

\* module.healthy = response.status_code == 200
ProbeHealthy(upstream) == upstream.kind = "response" /\ upstream.status = 200

\* the awaited http_client.get of a probe returns a response or raises; the
\* loop goes on
probe_returns(upstream) ==
    /\ health.pc = "probe"
    /\ LET module == The(health.probing)
           healthy == ProbeHealthy(upstream)
           r == HealthLoop(Report(health, module, Some(upstream), healthy),
                           SetHealthy(modules, module.oid, healthy))
       IN health' = r.h /\ modules' = r.mods
    /\ dispatched' = None
    /\ UNCHANGED registrations
    /\ UNCHANGED <<orchestrator_vars, manager>>

\* ------------------------------------------------------------ StateManager
\* the cache after set has stored the entry: the oldest entry leaves when
\* the cache has grown beyond cache_size
ManageCacheSize(m) ==
    IF Len(m.cache) > m.cache_size
    THEN LET oldest_key == MinItemKey(m.cache_timestamps)
         IN [m EXCEPT !.cache = DictDel(@, oldest_key),
                      !.cache_timestamps = DictDel(@, oldest_key)]
    ELSE m

\* StateManager.set(key, value, namespace, ttl), on the manager m
AfterSet(m, key, payload, namespace, ttl) ==
    LET full_key == make_key(key, namespace)
        value == Stored(payload, ttl, m.now)
        expires_at == IF ~IsNone(ttl) /\ The(ttl) # 0 THEN Some(m.now + The(ttl)) ELSE None
        cached == [m EXCEPT !.cache = DictSet(@, full_key, value),
                            !.cache_timestamps = DictSet(@, full_key, m.now)]
    IN [ManageCacheSize(cached) EXCEPT
           !.db[full_key] = Some(Row(serialize_value(value), namespace, expires_at)),
           !.returned = NoCall]

\* the value StateManager.get(key, namespace) returns on the manager m, None
\* for the default
GetValue(m, key, namespace) ==
    LET full_key == make_key(key, namespace)
        row == SelectLive(m.db, full_key, m.now)
    IN IF full_key \in DictKeys(m.cache) THEN Some(DictGet(m.cache, full_key))
       ELSE IF ~IsNone(row) THEN Some(deserialize_value(The(row).value))
       ELSE None

\* StateManager.get(key, namespace), on the manager m
AfterGet(m, key, namespace) ==
    LET full_key == make_key(key, namespace)
        value == GetValue(m, key, namespace)
        returns == [m EXCEPT !.returned = Returned("get", value, m.now)]
    IN IF full_key \in DictKeys(m.cache) \/ IsNone(value)
       THEN returns
       ELSE [returns EXCEPT !.cache = DictSet(@, full_key, The(value)),
                            !.cache_timestamps = DictSet(@, full_key, m.now)]

\* StateManager.delete(key, namespace), on the manager m
AfterDelete(m, key, namespace) ==
    LET full_key == make_key(key, namespace)
        uncached == IF full_key \in DictKeys(m.cache)
                    THEN [m EXCEPT !.cache = DictDel(@, full_key),
                                   !.cache_timestamps = DictDel(@, full_key)]
                    ELSE m
    IN [uncached EXCEPT !.db[full_key] = None,
                        !.returned = NoCall]

\* StateManager.clear_namespace(namespace), on the manager m
AfterClearNamespace(m, namespace) ==
    LET keys_to_remove == {k \in DictKeys(m.cache) : path_startswith(k, namespace \o <<":">>)}
    IN [m EXCEPT
           !.cache = SelectSeq(@, LAMBDA entry : entry.key \notin keys_to_remove),
           !.cache_timestamps = SelectSeq(@, LAMBDA entry : entry.key \notin keys_to_remove),
           !.db = [full_key \in FullKeys |->
                      IF ~IsNone(@[full_key]) /\ The(@[full_key]).namespace = namespace
                      THEN None ELSE @[full_key]],
           !.returned = NoCall]

set(key, payload, namespace, ttl) ==
    /\ manager' = AfterSet(manager, key, payload, namespace, ttl)
    /\ UNCHANGED <<orchestrator_vars, router_vars>>

get(key, namespace) ==
    /\ manager' = AfterGet(manager, key, namespace)
    /\ UNCHANGED <<orchestrator_vars, router_vars>>

delete(key, namespace) ==
    /\ manager' = AfterDelete(manager, key, namespace)
    /\ UNCHANGED <<orchestrator_vars, router_vars>>

clear_namespace(namespace) ==
    /\ manager' = AfterClearNamespace(manager, namespace)
    /\ UNCHANGED <<orchestrator_vars, router_vars>>

\* a second passes
second_passes ==
    /\ manager.now < MaxTime
    /\ manager' = [manager EXCEPT !.now = @ + 1]
    /\ UNCHANGED <<orchestrator_vars, router_vars>>

\* ----------------------------------------------------------------- Next
Next ==
    \/ \E id \in WorkflowIds, d \in Definitions :
          Len(heap) < MaxWorkflows /\ create_workflow(id, d)
    \/ \E e \in Execs, id \in WorkflowIds : execute_workflow(e, id, None)
    \/ \E e \in Execs, s \in StepNames : start_step(e, s)
    \/ \E e \in Execs, s \in StepNames, ok \in BOOLEAN : dispatch_returns(e, s, ok)
    \/ \E e \in Execs, s \in StepNames : backoff_over(e, s)
    \/ \E e \in Execs : gather_returns(e)
    \/ restart

Spec == Init /\ [][Next]_vars

\* The event loop runs every task that can run; dispatches and backoff waits end.
Progress(e) ==
    \/ \E s \in StepNames : start_step(e, s)
    \/ \E s \in StepNames, ok \in BOOLEAN : dispatch_returns(e, s, ok)
    \/ \E s \in StepNames : backoff_over(e, s)
    \/ gather_returns(e)

\* The executions of the workflows created (LiveMaxWorkflows of them), with
\* no restart; the event loop is fair to every call in flight.
LiveNext ==
    \/ \E id \in WorkflowIds, d \in Definitions :
          Len(heap) < LiveMaxWorkflows /\ create_workflow(id, d)
    \/ \E e \in Execs, id \in WorkflowIds : execute_workflow(e, id, None)
    \/ \E e \in Execs, s \in StepNames : start_step(e, s)
    \/ \E e \in Execs, s \in StepNames, ok \in BOOLEAN : dispatch_returns(e, s, ok)
    \/ \E e \in Execs, s \in StepNames : backoff_over(e, s)
    \/ \E e \in Execs : gather_returns(e)

FairSpec == Init /\ [][LiveNext]_vars /\ \A e \in Execs : WF_vars(Progress(e))

\* The executions of workflows whose steps carry parameters and name their
\* services, started with and without an initial context.
StepNext ==
    \/ \E id \in WorkflowIds, d \in StepDefinitions :
          Len(heap) < LiveMaxWorkflows /\ create_workflow(id, d)
    \/ \E e \in Execs, id \in WorkflowIds, initial_context \in InitialContexts :
          execute_workflow(e, id, initial_context)
    \/ \E e \in Execs, s \in StepNames : start_step(e, s)
    \/ \E e \in Execs, s \in StepNames, ok \in BOOLEAN : dispatch_returns(e, s, ok)
    \/ \E e \in Execs, s \in StepNames : backoff_over(e, s)
    \/ \E e \in Execs : gather_returns(e)

StepSpec == Init /\ [][StepNext]_vars

\* The executions of the workflows created, restarts, and status lookups
\* between any two of their steps.
StatusNext ==
    \/ \E id \in WorkflowIds, d \in Definitions :
          Len(heap) < LiveMaxWorkflows /\ create_workflow(id, d)
    \/ \E e \in Execs, id \in WorkflowIds : execute_workflow(e, id, None)
    \/ \E e \in Execs, s \in StepNames : start_step(e, s)
    \/ \E e \in Execs, s \in StepNames, ok \in BOOLEAN : dispatch_returns(e, s, ok)
    \/ \E e \in Execs, s \in StepNames : backoff_over(e, s)
    \/ \E e \in Execs : gather_returns(e)
    \/ restart
    \/ \E id \in WorkflowIds : get_workflow_status(id)

StatusSpec == Init /\ [][StatusNext]_vars

\* The router on its own: registrations and dispatches.
RouterNext ==
    \/ \E module_name \in ModuleNames, router \in Routers, service_url \in ServiceUrls,
          health_check_endpoint \in HealthEndpoints :
          register_module(module_name, BasePath, router, service_url, health_check_endpoint)
    \/ \E module_name \in ModuleNames : unregister_module(module_name)
    \/ \E service \in ServiceNames, endpoint \in Endpoints, method \in Methods,
          outcome \in HandlerOutcomes \cup Upstreams \cup {NoOutcome} :
          route_request_call(service, endpoint, method, outcome)

RouterSpec == Init /\ [][RouterNext]_vars

\* The health checks of the router, with registry changes between any two
\* steps of a check.
HealthNext ==
    \/ \E module_name \in ModuleNames, router \in Routers, service_url \in ServiceUrls,
          health_check_endpoint \in HealthEndpoints :
          register_module(module_name, BasePath, router, service_url, health_check_endpoint)
    \/ \E module_name \in ModuleNames : unregister_module(module_name)
    \/ \E module_name \in {None} \cup {Some(name) : name \in ServiceNames \cup {""}} :
          check_health(module_name)
    \/ \E upstream \in HealthUpstreams : probe_returns(upstream)

HealthSpec == Init /\ [][HealthNext]_vars

\* the StateManager on its own
StateNext ==
    \/ \E key \in Keys, payload \in Payloads, namespace \in Namespaces, ttl \in Ttls :
           set(key, payload, namespace, ttl)
    \/ \E key \in Keys, namespace \in Namespaces : get(key, namespace)
    \/ \E key \in Keys, namespace \in Namespaces : delete(key, namespace)
    \/ \E namespace \in Namespaces : clear_namespace(namespace)
    \/ second_passes
StateSpec == Init /\ [][StateNext]_vars

\* ====================================================================
\* Properties
\* ====================================================================
Started(e) == exec[e].pc \in {"gather", "done"}
Done(e) == exec[e].pc = "done"
WorkflowOf(e) == heap[exec[e].workflow]
Ret(e) == The(exec[e].ret)
DependsOn(w, s) == Range(StepOf(w, s).depends_on)

\* C1: a step is launched in an execution only if every name in its depends_on
\* was dispatched successfully and marked COMPLETED earlier in that execution.
C1_LaunchedAfterDependencies ==
    \A e \in Execs : Started(e) =>
        \A s \in exec[e].launched : \A d \in DependsOn(WorkflowOf(e), s) :
            /\ d \in DOMAIN exec[e].dispatched_ok
            /\ d \in exec[e].completed_marks
            /\ d \in exec[e].launched

\* C1 witness: a step that has dependencies was launched.
C1_Witness ==
    \E e \in Execs : Started(e) /\
        \E s \in exec[e].launched : Cardinality(DependsOn(WorkflowOf(e), s)) = 2

\* The dispatch attempts of the tasks of the current batch: never more than
\* retry_count + 1; a task that returned did so on its k-th attempt after
\* k - 1 failures; a task that raised made exactly retry_count + 1 attempts
\* and raised the error of the last one.
AttemptCounts ==
    \A e \in Execs : Started(e) =>
        \A s \in DOMAIN exec[e].tasks :
            LET t == exec[e].tasks[s]
                n == StepOf(WorkflowOf(e), s).retry_count
            IN /\ t.attempts <= n + 1
               /\ t.pc = "ok" => /\ t.attempts = t.retries + 1
                                 /\ t.response = Some(Response(e, s, t.attempts))
               /\ t.pc = "err" => /\ t.attempts = n + 1
                                  /\ t.last_error = Some(DispatchError(e, s, n + 1))

\* the first step of the batch, in the workflow's step order, whose task raised
FirstFailedIn(x, s) ==
    \E i \in 1..Len(x.ready_steps) :
        /\ x.ready_steps[i] = s
        /\ x.tasks[s].pc = "err"
        /\ \A j \in 1..(i - 1) : x.tasks[x.ready_steps[j]].pc = "ok"
FirstFailed(e, s) == FirstFailedIn(exec[e], s)

\* C2 as stated: ... and when every attempt of a step fails the workflow is
\* marked FAILED with that step's error.
C2_Original ==
    /\ AttemptCounts
    /\ \A e \in Execs : Done(e) =>
          \A s \in DOMAIN exec[e].tasks :
              exec[e].tasks[s].pc = "err" =>
                  /\ Ret(e).status = FAILED
                  /\ Ret(e).error = Some(str(The(exec[e].tasks[s].last_error)))

\* C2 amended: the attempt counts as claimed; when every attempt of a step
\* fails the workflow is marked FAILED, with that step's last error if no step
\* before it in the batch failed, and otherwise with the last error of the
\* first failed step of the batch.
C2_AttemptsAndFailure ==
    /\ AttemptCounts
    /\ \A e \in Execs : Done(e) =>
          \A s \in DOMAIN exec[e].tasks :
              exec[e].tasks[s].pc = "err" =>
                  /\ Ret(e).status = FAILED
                  /\ \E f \in DOMAIN exec[e].tasks :
                        /\ FirstFailed(e, f)
                        /\ Ret(e).error = Some(str(The(exec[e].tasks[f].last_error)))
                  /\ FirstFailed(e, s) =>
                        Ret(e).error = Some(str(DispatchError(e, s,
                                          StepOf(WorkflowOf(e), s).retry_count + 1)))

\* C2 witness: a step with retry_count = MaxRetry failed MaxRetry + 1 times
\* and the execution has ended.
C2_Witness ==
    \E e \in Execs : Done(e) /\
        \E s \in DOMAIN exec[e].tasks :
            /\ StepOf(WorkflowOf(e), s).retry_count = MaxRetry
            /\ exec[e].tasks[s].pc = "err"
            /\ exec[e].tasks[s].attempts = MaxRetry + 1

\* ---------------------------------------------------- dependency graphs
\* the names reachable from the names in S along depends_on, in 1..n steps
RECURSIVE DependsWithin(_, _, _)
DependsWithin(w, S, n) ==
    IF n = 0 THEN {}
    ELSE LET direct == UNION {DependsOn(w, s) : s \in S \cap StepNamesOf(w)}
         IN direct \cup DependsWithin(w, direct, n - 1)
DependsTransitively(w, s) == DependsWithin(w, {s}, Len(w.steps) + 1)

OnCycle(w, s) == s \in DependsTransitively(w, s)
HasCycle(w) == \E s \in StepNamesOf(w) : OnCycle(w, s)
\* s is on a dependency cycle or depends, directly or transitively, on a step that is
BehindCycle(w, s) ==
    OnCycle(w, s) \/ \E d \in DependsTransitively(w, s) : d \in StepNamesOf(w) /\ OnCycle(w, d)

Dangling(w, s) == \E d \in DependsOn(w, s) : d \notin StepNamesOf(w)
HasDangling(w) == \E s \in StepNamesOf(w) : Dangling(w, s)
\* s has a dangling reference or depends, directly or transitively, on a step that has
BehindDangling(w, s) ==
    Dangling(w, s) \/ \E d \in DependsTransitively(w, s) : d \in StepNamesOf(w) /\ Dangling(w, d)

\* C3: executing a workflow whose steps form a dependency cycle ends FAILED
\* with the dependency-resolution error and dispatches no step.  (Stated for
\* every workflow that has a cycle: no step on a cycle or behind one is ever
\* launched and the execution ends FAILED; when every step is on a cycle or
\* behind one, as in A <-> B, no batch is formed, no step is launched and the
\* error is the dependency-resolution error.)
C3_CycleFailsWithoutDispatch ==
    \A e \in Execs : Started(e) =>
        LET w == WorkflowOf(e)
            x == exec[e]
        IN HasCycle(w) =>
            /\ \A s \in x.launched : ~BehindCycle(w, s)
            /\ \A s \in DOMAIN x.tasks : ~BehindCycle(w, s)
            /\ Done(e) => Ret(e).status = FAILED
            /\ (\A s \in StepNamesOf(w) : BehindCycle(w, s)) =>
                  /\ Done(e)
                  /\ x.launched = {} /\ x.batches = 0 /\ DOMAIN x.tasks = {}
                  /\ Ret(e).error = Some(str(DependencyError))
                  /\ Ret(e).result = None

\* C3 witness: an execution of a workflow whose every step is on a cycle has ended.
C3_Witness ==
    \E e \in Execs : Done(e) /\ \A s \in StepNamesOf(WorkflowOf(e)) : OnCycle(WorkflowOf(e), s)

\* C4 as stated: executing a workflow with a dangling depends_on always ends
\* FAILED with the dependency-resolution error; the step with the dangling
\* reference and the steps behind it are never dispatched.
C4_Original ==
    \A e \in Execs : Started(e) =>
        LET w == WorkflowOf(e)
        IN HasDangling(w) =>
            /\ \A s \in exec[e].launched : ~BehindDangling(w, s)
            /\ Done(e) => /\ Ret(e).status = FAILED
                          /\ Ret(e).error = Some(str(DependencyError))

\* C4 amended: executing a workflow with a dangling depends_on always ends
\* FAILED: with the dependency-resolution error when every step that was
\* dispatched succeeded, and with the failed step's error otherwise; the step
\* with the dangling reference and the steps behind it are never dispatched.
\* create_workflow accepts every definition that has a dangling reference.
C4_DanglingFails ==
    /\ \A e \in Execs : Started(e) =>
          LET w == WorkflowOf(e)
              x == exec[e]
          IN HasDangling(w) =>
              /\ \A s \in x.launched : ~BehindDangling(w, s)
              /\ \A s \in DOMAIN x.tasks : ~BehindDangling(w, s)
              /\ Done(e) =>
                    /\ Ret(e).status = FAILED
                    /\ IsNone(x.failed_step) => Ret(e).error = Some(str(DependencyError))
                    /\ ~IsNone(x.failed_step) =>
                          /\ FirstFailed(e, The(x.failed_step))
                          /\ Ret(e).error = Some(str(The(x.tasks[The(x.failed_step)].last_error)))
                          /\ Ret(e).error # Some(str(DependencyError))
    /\ \A id \in WorkflowIds, d \in Definitions :
          HasDangling(Workflow(id, d.name, d.steps)) => ENABLED create_workflow(id, d)

\* C4 witness: an execution of a workflow with a dangling reference ended
\* with the dependency-resolution error after dispatching a step.
C4_Witness ==
    \E e \in Execs :
        /\ Done(e) /\ HasDangling(WorkflowOf(e))
        /\ exec[e].launched # {}
        /\ Ret(e).error = Some(str(DependencyError))

\* C5: an execution returns COMPLETED if and only if every step of the
\* workflow was dispatched successfully in it, and then the returned result
\* maps exactly the step names, each to the response of its successful dispatch.
C5_CompletedIffAllDispatched ==
    \A e \in Execs : Done(e) =>
        LET w == WorkflowOf(e)
            ok == exec[e].dispatched_ok
        IN /\ Ret(e).status \in {COMPLETED, FAILED}
           /\ Ret(e).status = COMPLETED <=> DOMAIN ok = StepNamesOf(w)
           /\ Ret(e).status = COMPLETED =>
                 /\ ~IsNone(Ret(e).result)
                 /\ DOMAIN The(Ret(e).result) = StepNamesOf(w)
                 /\ \A s \in StepNamesOf(w) : The(Ret(e).result)[s] = ok[s]

\* C5 witness: an execution of a workflow of three steps returned COMPLETED.
C5_Witness ==
    \E e \in Execs : Done(e) /\ Ret(e).status = COMPLETED /\ Len(WorkflowOf(e).steps) = 3

\* what holds of the heap, the store and the call e when it has just returned
ReturnedTerminal(h, store, x) ==
    /\ h[x.workflow].status \in {COMPLETED, FAILED}
    /\ store[ExecKey(x.workflow_id)] = Some(ExecutionRecord(h[x.workflow]))
    /\ x.ret = Some(ReturnValue(x.workflow_id, h[x.workflow]))

\* C6: every execute_workflow call on a known workflow terminates when the
\* dispatches and the backoff waits do: at most one batch per step, and the
\* call ends with the workflow COMPLETED or FAILED and the outcome persisted.
C6_Terminates ==
    /\ [](\A e \in Execs : Started(e) => exec[e].batches <= Len(WorkflowOf(e).steps))
    /\ [][\A e \in Execs : (~Done(e) /\ Done(e)') =>
              ReturnedTerminal(heap', state_manager', exec'[e])]_vars
    /\ \A e \in Execs : (exec[e].pc = "gather") ~> Done(e)

\* C6 witness: an execution that ran one batch per step has ended.
C6_Witness ==
    \E e \in Execs : Done(e) /\ exec[e].batches = 2 /\ Len(WorkflowOf(e).steps) = 2

TerminalStatus == {COMPLETED, FAILED}

\* C7: once the status of a workflow is COMPLETED or FAILED it never changes
\* again, over create_workflow and execute_workflow calls (stated of each
\* Workflow object, so that a create_workflow that puts a new workflow under
\* an id in use does not count as a change).
C7_StatusMonotonic ==
    [][\A ref \in 1..Len(heap) :
          heap[ref].status \in TerminalStatus => heap'[ref].status = heap[ref].status]_vars

\* C8: two executions of one workflow id are never both in their
\* step-execution phase.
C8_OneExecutionPerWorkflow ==
    \A e1, e2 \in Execs :
        (e1 # e2 /\ exec[e1].pc = "gather" /\ exec[e2].pc = "gather") =>
            exec[e1].workflow_id # exec[e2].workflow_id

\* C9: an execution that ends FAILED after steps completed returns (and
\* persists, and get_workflow_status reports) a result mapping holding the
\* result of every step completed in it.
C9_ResultsKeptOnFailure ==
    \A e \in Execs :
        (Done(e) /\ Ret(e).status = FAILED /\ exec[e].executed_steps # {}) =>
            /\ ~IsNone(Ret(e).result)
            /\ \A s \in exec[e].executed_steps :
                  /\ s \in DOMAIN The(Ret(e).result)
                  /\ The(Ret(e).result)[s] = exec[e].results[s]

\* what holds when the call e has just returned after its step s exhausted
\* its retries as the first failed step of the batch
FailureRecorded(h, x, e) ==
    LET s == The(x.failed_step)
        w == h[x.workflow]
        final == str(DispatchError(e, s, StepOf(w, s).retry_count + 1))
    IN /\ FirstFailedIn(x, s)
       /\ x.tasks[s].last_error = Some(DispatchError(e, s, StepOf(w, s).retry_count + 1))
       /\ StepOf(w, s).status = FAILED
       /\ StepOf(w, s).error = Some(final)
       /\ w.status = FAILED
       /\ w.error = Some(final)
       /\ The(x.ret).status = FAILED
       /\ The(x.ret).error = Some(final)

\* C10: when an execution fails because a step exhausted its retries, the
\* step's error and the workflow's error both hold the string of that step's
\* final error, both statuses are FAILED, and of several failed steps of a
\* batch the first in the workflow's step order is the one recorded.
C10_FailureRecorded ==
    [][\A e \in Execs :
          (~Done(e) /\ Done(e)' /\ ~IsNone(exec'[e].failed_step)) =>
              FailureRecorded(heap', exec'[e], e)]_vars

\* C10 witness: an execution has ended in which two steps of the batch failed.
C10_Witness ==
    \E e \in Execs :
        /\ Done(e) /\ ~IsNone(exec[e].failed_step)
        /\ Cardinality({s \in DOMAIN exec[e].tasks : exec[e].tasks[s].pc = "err"}) = 2

\* ------------------------------------------------- unregistered services
Unregistered(w, s) == StepOf(w, s).service \notin Registered

\* the tasks of the current batch whose step targets an unregistered service:
\* no handler or HTTP call was made, no attempt returned, every attempt that
\* has ended raised the service-not-found error
UnregisteredAttemptsFail ==
    \A e \in Execs : Started(e) =>
        \A s \in DOMAIN exec[e].tasks :
            LET t == exec[e].tasks[s]
                step == StepOf(WorkflowOf(e), s)
            IN Unregistered(WorkflowOf(e), s) =>
                /\ t.handler_calls = 0
                /\ t.pc # "ok" /\ IsNone(t.response)
                /\ s \notin DOMAIN exec[e].dispatched_ok
                /\ t.pc = "dispatch" => t.retries = t.attempts - 1
                /\ t.pc \in {"sleep", "err"} => t.retries = t.attempts
                /\ t.retries > 0 => t.last_error = Some(ServiceNotFoundError(step.service))
                /\ t.pc = "err" => t.attempts = step.retry_count + 1
                /\ Done(e) => Ret(e).status = FAILED /\ Ret(e).result = None
                /\ (Done(e) /\ exec[e].failed_step = Some(s)) =>
                        Ret(e).error = Some(str(ServiceNotFoundError(step.service)))
                /\ (~Done(e) /\ \A f \in Execs \ {e} : exec[f].workflow # exec[e].workflow) =>
                        WorkflowOf(e).status = RUNNING

\* the call e returns because a step on an unregistered service failed: the
\* steps it completed in earlier batches are as they were (COMPLETED with
\* their results, when no other call ran on the same workflow), and the steps
\* of this batch that returned before the failed one are COMPLETED with their
\* responses
CompletedStepsKept(e) ==
    LET x == exec[e]
        w == heap[x.workflow]
        w2 == heap'[x.workflow]
    IN /\ w.status \in {RUNNING, FAILED} /\ w2.status = FAILED
       /\ \A s \in x.executed_steps : StepOf(w2, s) = StepOf(w, s)
       /\ \A s \in exec'[e].executed_steps \cap DOMAIN x.tasks :
             /\ StepOf(w2, s).status = COMPLETED
             /\ StepOf(w2, s).result = x.tasks[s].response
       /\ (\A f \in Execs \ {e} : exec[f].workflow # x.workflow) =>
             \A s \in exec'[e].executed_steps :
                 /\ StepOf(w2, s).status = COMPLETED
                 /\ StepOf(w2, s).result = Some(exec'[e].results[s])

\* C11: when a step targets a service that is not registered, every dispatch
\* attempt for it fails with the service-not-found error and no handler or
\* HTTP call is made; the workflow, RUNNING while the step is in flight, ends
\* FAILED; the COMPLETED status and the recorded result of every step completed
\* before the failure are left unchanged.
C11_UnregisteredServiceFails ==
    /\ []UnregisteredAttemptsFail
    /\ [][\A e \in Execs :
              (~Done(e) /\ Done(e)' /\ ~IsNone(exec'[e].failed_step)
                 /\ Unregistered(WorkflowOf(e), The(exec'[e].failed_step))) =>
                  CompletedStepsKept(e)]_vars

\* C11 witness: an execution has ended on the failure of a step on an
\* unregistered service, after two attempts, with steps completed in an
\* earlier batch and in the same batch.
C11_Witness ==
    \E e \in Execs :
        /\ Done(e) /\ ~IsNone(exec[e].failed_step)
        /\ Unregistered(WorkflowOf(e), The(exec[e].failed_step))
        /\ exec[e].tasks[The(exec[e].failed_step)].attempts = 2
        /\ Cardinality(exec[e].executed_steps) = 2
        /\ \E s \in exec[e].executed_steps : s \in DOMAIN exec[e].tasks

\* ---------------------------------------------------- unknown workflow id
Unknown(id) == workflows[id] = 0 /\ IsNone(state_manager[DefKey(id)])

\* the call e is made, on the id given by workflow_id of its record afterwards
Called(e) == exec[e].pc = "idle" /\ exec'[e].pc # "idle"

\* what holds over the step in which the call e is made on an unknown id
NotFoundChangesNothing(e) ==
    /\ exec'[e].pc = "raised"
    /\ exec'[e].raised = Some(NotFoundError)
    /\ exec'[e] = [IdleExec EXCEPT !.pc = "raised", !.workflow_id = exec'[e].workflow_id,
                                     !.raised = Some(NotFoundError)]
    /\ \A f \in Execs \ {e} : exec'[f] = exec[f]
    /\ workflows' = workflows
    /\ state_manager' = state_manager
    /\ heap' = heap
    /\ lock' = FALSE

\* C12: execute_workflow on an id that is neither in the workflow table nor
\* has a persisted definition fails with the "not found" ValueError and
\* changes nothing: no table entry, no outcome record, no step dispatched, the
\* lock released.  A call raises this way only on such an id.
C12_UnknownIdChangesNothing ==
    /\ [][\A e \in Execs :
              /\ (Called(e) /\ Unknown(exec'[e].workflow_id)) => NotFoundChangesNothing(e)
              /\ (Called(e) /\ exec'[e].pc = "raised") => Unknown(exec'[e].workflow_id)]_vars
    /\ [](\A e \in Execs : exec[e].pc = "raised" =>
              /\ exec[e].launched = {} /\ exec[e].tasks = << >> /\ exec[e].batches = 0
              /\ IsNone(exec[e].ret)
              /\ ~lock)

\* C12 witness: a call has failed on an unknown id while another workflow is
\* in the table and has a persisted outcome.
C12_Witness ==
    \E e \in Execs, id \in WorkflowIds :
        /\ exec[e].pc = "raised" /\ Unknown(exec[e].workflow_id)
        /\ workflows[id] # 0 /\ ~IsNone(state_manager[ExecKey(id)])

\* ------------------------------------------------ references in parameters
\* the tasks of the current batch that have started
StartedTasks(e) == {s \in DOMAIN exec[e].tasks : exec[e].tasks[s].pc # "new"}

\* C13: for a step b that depends on a completed step a and has a parameter
\* whose value is exactly the string ${a.k}, with k a key of a's result, the
\* parameters passed to b's dispatch carry results[a][k] at that key, on every
\* dispatch attempt of b; results[a] is the response of a's successful
\* dispatch in this execution.
C13_ReferenceResolved ==
    \A e \in Execs : Started(e) =>
        \A b \in StartedTasks(e) :
            LET x == exec[e]
                t == x.tasks[b]
                step == StepOf(WorkflowOf(e), b)
            IN /\ Len(t.sent) = t.attempts
               /\ \A key \in DOMAIN step.params, a \in DependsOn(WorkflowOf(e), b) :
                     /\ a \in x.executed_steps
                     /\ x.results[a] = x.dispatched_ok[a]
                     /\ \A k \in DOMAIN x.results[a] :
                           step.params[key] = Template(<<a, ".", k>>) =>
                               \A i \in 1..Len(t.sent) : t.sent[i][key] = x.results[a][k]

\* C13 witness: b, whose parameter input is ${a.attempt}, was dispatched
\* twice with input = 2, the attempt number in a's result.
C13_Witness ==
    \E e \in Execs :
        /\ Started(e) /\ "b" \in StartedTasks(e)
        /\ "input" \in DOMAIN StepOf(WorkflowOf(e), "b").params
        /\ StepOf(WorkflowOf(e), "b").params["input"] = Template(<<"a", ".", "attempt">>)
        /\ exec[e].results["a"]["attempt"] = IntValue(2)
        /\ Len(exec[e].tasks["b"].sent) = 2
        /\ \A i \in 1..2 : exec[e].tasks["b"].sent[i]["input"] = IntValue(2)

\* C14: template resolution reaches every string in a step's parameters at
\* any nesting depth: a reference that is a value inside a nested mapping or
\* an element of a sequence (also of a sequence nested in a mapping or in
\* another sequence) is replaced by the referenced result value, and values
\* that are neither strings, mappings nor sequences are passed unchanged.
C14_ResolutionReachesEveryString ==
    \A e \in Execs : exec[e].pc = "gather" =>
        \A b \in StartedTasks(e) :
            LET x == exec[e]
                params == MergedParams(x.context, x.results, StepOf(WorkflowOf(e), b).params)
            IN \A i \in 1..Len(x.tasks[b].sent), key \in DOMAIN params :
                  x.tasks[b].sent[i][key] = ResolveDeep(params[key], x.results)

\* a str of the form ${...} whose reference has no "." or names a step that
\* has no entry in results
Unresolvable(value, results) ==
    /\ isinstance(value, "str") /\ startswith(value, "${") /\ endswith(value, "}")
    /\ ~HasDot(Ref(value)) \/ ~In(SplitStepName(Ref(value)), results)

\* the value out passed to the dispatch holds, wherever value holds an
\* unresolvable reference, that same str
RECURSIVE KeepsUnresolved(_, _, _)
KeepsUnresolved(value, out, results) ==
    IF Unresolvable(value, results) THEN out = value
    ELSE IF isinstance(value, "dict")
    THEN /\ isinstance(out, "dict") /\ DOMAIN out.d = DOMAIN value.d
         /\ \A key \in DOMAIN value.d : KeepsUnresolved(value.d[key], out.d[key], results)
    ELSE IF isinstance(value, "list")
    THEN /\ isinstance(out, "list") /\ Len(out.l) = Len(value.l)
         /\ \A i \in 1..Len(value.l) : KeepsUnresolved(value.l[i], out.l[i], results)
    ELSE TRUE

\* C15: a template string whose step name is not in the completed-results
\* mapping, or whose reference has no ".", is passed to the dispatch as the
\* literal unresolved string; resolution raises no error and the step is
\* still dispatched.
C15_UnresolvedKeptLiteral ==
    \A e \in Execs : exec[e].pc = "gather" =>
        \A b \in StartedTasks(e) :
            LET x == exec[e]
                t == x.tasks[b]
                step == StepOf(WorkflowOf(e), b)
            IN /\ t.attempts >= 1 /\ Len(t.sent) = t.attempts
               /\ t.last_error # Some(RaiseNoneError)
               /\ \A i \in 1..Len(t.sent) :
                     /\ DOMAIN step.params \subseteq DOMAIN t.sent[i]
                     /\ \A key \in DOMAIN step.params :
                           KeepsUnresolved(step.params[key], t.sent[i][key], x.results)

\* C15 witness: b's dispatch returned, having been sent ${zz.attempt} and ${a}
\* as they were written, and ${b.step} inside a nested mapping.
C15_Witness ==
    \E e \in Execs :
        /\ exec[e].pc = "gather" /\ "b" \in StartedTasks(e)
        /\ exec[e].tasks["b"].pc = "ok"
        /\ "missing" \in DOMAIN exec[e].tasks["b"].sent[1]
        /\ exec[e].tasks["b"].sent[1]["missing"] = Template(<<"zz", ".", "attempt">>)
        /\ exec[e].tasks["b"].sent[1]["nodot"] = Template(<<"a">>)
        /\ exec[e].tasks["b"].sent[1]["nested"].d["missing"] = Template(<<"b", ".", "step">>)

\* ------------------------------------------------------------ rehydration
\* the fields of a step that its definition gives
StaticFields(step) ==
    [name |-> step.name, service |-> step.service, endpoint |-> step.endpoint,
     method |-> step.method, params |-> step.params, depends_on |-> step.depends_on,
     retry_count |-> step.retry_count, timeout |-> step.timeout]
StaticSteps(w) == [i \in 1..Len(w.steps) |-> StaticFields(w.steps[i])]

\* the Workflow objects made for the id before the object ref
EarlierObjects(h, ref) == {i \in 1..(ref - 1) : h[i].workflow_id = h[ref].workflow_id}
\* the last of them: the one create_workflow made last for the id
Created(h, ref) == h[CHOOSE i \in EarlierObjects(h, ref) : \A j \in EarlierObjects(h, ref) : j <= i]

\* the workflow new has the name and, step by step in the same order, the
\* static fields of the workflow orig, and they are those of a submitted
\* definition
SameDefinition(new, orig) ==
    /\ new.workflow_id = orig.workflow_id
    /\ new.name = orig.name
    /\ StaticSteps(new) = StaticSteps(orig)
    /\ \E d \in Definitions : new.name = d.name /\ StaticSteps(new) = d.steps

\* C16: round trip of a definition: executing the id of a workflow created by
\* create_workflow when the id is absent from the in-memory table rebuilds
\* the workflow from the persisted definition with the same name and, for
\* every step, identical name, service, endpoint, method, params, depends_on,
\* retry_count and timeout, in the same order as submitted.
C16_DefinitionRoundTrip ==
    /\ [][\A e \in Execs :
              (Called(e) /\ exec'[e].rehydrated) =>
                  /\ workflows[exec'[e].workflow_id] = 0
                  /\ exec'[e].workflow = Len(heap) + 1
                  /\ workflows'[exec'[e].workflow_id] = exec'[e].workflow
                  /\ EarlierObjects(heap', exec'[e].workflow) # {}
                  /\ SameDefinition(heap'[exec'[e].workflow], Created(heap', exec'[e].workflow))]_vars
    /\ [](\A e \in Execs : (Started(e) /\ exec[e].rehydrated) =>
              SameDefinition(WorkflowOf(e), Created(heap, exec[e].workflow)))

\* C16 witness: a workflow of three steps, one of them with retries, was
\* rebuilt by an execution after a restart.
C16_Witness ==
    \E e \in Execs :
        /\ Started(e) /\ exec[e].rehydrated /\ restarts = 1
        /\ Len(WorkflowOf(e).steps) = 3
        /\ \E i \in 1..3 : WorkflowOf(e).steps[i].retry_count > 0

\* ----------------------------------------------------------- status lookup
\* the last operation was get_workflow_status(id)
Replied(id) == ~IsNone(reply) /\ The(reply).workflow_id = id

\* C17: a lookup of a workflow id that is not held in memory but whose
\* definition was persisted by create_workflow reconstructs the workflow
\* rather than reporting not-found: get_workflow_status for such an id does
\* not return None, whether or not the workflow has ever been executed.
C17_LookupReconstructs ==
    \A id \in WorkflowIds :
        (Replied(id) /\ workflows[id] = 0 /\ ~IsNone(state_manager[DefKey(id)])) =>
            ~IsNone(The(reply).value)

\* the status a reply reports
ReportsStatus(r, status) == ~IsNone(The(r).value) /\ The(The(r).value).status = status

\* C18: get_workflow_status is idempotent on a COMPLETED workflow: of two
\* consecutive calls with no other operation in between the second returns
\* what the first returned, and no call changes the workflow table, a field
\* of a workflow or of a step, or a persisted definition or outcome record.
C18_StatusLookupIdempotent ==
    [][\A id \in WorkflowIds :
          (~IsNone(reply') /\ The(reply').workflow_id = id) =>
              /\ workflows' = workflows
              /\ heap' = heap
              /\ state_manager' = state_manager
              /\ exec' = exec /\ lock' = lock
              /\ (Replied(id) /\ ReportsStatus(reply, COMPLETED)) => reply' = reply]_vars

\* C18 witness: a call has returned the record of a COMPLETED workflow held
\* in the table, with its result.
C18_Witness ==
    \E id \in WorkflowIds :
        /\ Replied(id) /\ ReportsStatus(reply, COMPLETED)
        /\ workflows[id] # 0
        /\ The(reply).value = Some(StatusRecord(id, heap[workflows[id]]))
        /\ ~IsNone(The(The(reply).value).result)

\* ------------------------------------------------------------ concurrency
\* the steps of w that are not executed and whose dependencies all are
ReadySet(w, executed_steps) ==
    {s \in StepNamesOf(w) \ executed_steps : DependsOn(w, s) \subseteq executed_steps}

\* the task of s is next to start among the tasks of the batch of e
NextToStart(e, s) ==
    /\ exec[e].pc = "gather" /\ s \in DOMAIN exec[e].tasks
    /\ exec[e].tasks[s].pc = "new"
    /\ \E i \in 1..Len(exec[e].ready_steps) :
          /\ exec[e].ready_steps[i] = s
          /\ \A j \in 1..(i - 1) : exec[e].tasks[exec[e].ready_steps[j]].pc # "new"

\* no dependency path between s1 and s2, and no dependency in common
Independent(w, s1, s2) ==
    /\ s1 # s2
    /\ DependsOn(w, s1) \cap DependsOn(w, s2) = {}
    /\ s1 \notin DependsTransitively(w, s2)
    /\ s2 \notin DependsTransitively(w, s1)

\* C19: the ready steps of one batch are launched together and not one after
\* the other: a batch holds every step that is ready, and the next task of
\* the batch can start whether or not the tasks started before it have
\* settled; so two steps with disjoint dependency sets and no dependency path
\* between them can both be RUNNING at the same time (the witness).
C19_BatchLaunchedTogether ==
    \A e \in Execs : exec[e].pc = "gather" =>
        /\ DOMAIN exec[e].tasks = ReadySet(WorkflowOf(e), exec[e].executed_steps)
        /\ Range(exec[e].ready_steps) = DOMAIN exec[e].tasks
        /\ \A s \in DOMAIN exec[e].tasks : NextToStart(e, s) => ENABLED start_step(e, s)

\* C19 witness: two independent steps of one workflow are both RUNNING, both
\* started and neither settled: the dispatch of each is in flight.
C19_Witness ==
    \E e \in Execs : \E s1, s2 \in DOMAIN exec[e].tasks :
        /\ exec[e].pc = "gather"
        /\ Independent(WorkflowOf(e), s1, s2)
        /\ exec[e].tasks[s1].pc = "dispatch" /\ exec[e].tasks[s2].pc = "dispatch"
        /\ StepOf(WorkflowOf(e), s1).status = RUNNING
        /\ StepOf(WorkflowOf(e), s2).status = RUNNING
        /\ ~IsNone(StepOf(WorkflowOf(e), s1).started_at)
        /\ ~IsNone(StepOf(WorkflowOf(e), s2).started_at)
        /\ IsNone(exec[e].tasks[s1].response) /\ IsNone(exec[e].tasks[s2].response)

\* ------------------------------------------------------------ re-execution
\* C20: executing a workflow id whose previous execution ended FAILED starts
\* again with an empty completed set: every step is dispatched again in
\* dependency order, including the steps that completed in the earlier run,
\* and no step is skipped because of earlier progress.
C20_ReexecutionFromScratch ==
    /\ [][\A e \in Execs :
              (Called(e) /\ Started(e)' /\ exec'[e].prior_status = FAILED) =>
                  /\ heap[exec'[e].workflow].status = FAILED
                  /\ exec'[e].executed_steps = {} /\ exec'[e].results = << >>
                  /\ exec'[e].launched = {} /\ exec'[e].dispatched_ok = << >>
                  /\ exec'[e].pc = "gather" =>
                        DOMAIN exec'[e].tasks = ReadySet(heap'[exec'[e].workflow], {})]_vars
    /\ [](\A e \in Execs : (Started(e) /\ exec[e].prior_status = FAILED) =>
              /\ exec[e].executed_steps \subseteq DOMAIN exec[e].dispatched_ok
              /\ exec[e].executed_steps \subseteq exec[e].launched
              /\ \A s \in exec[e].launched :
                    DependsOn(WorkflowOf(e), s) \subseteq exec[e].completed_marks
              /\ exec[e].pc = "gather" =>
                    DOMAIN exec[e].tasks = ReadySet(WorkflowOf(e), exec[e].executed_steps)
              /\ (Done(e) /\ Ret(e).status = COMPLETED) =>
                    /\ exec[e].launched = StepNamesOf(WorkflowOf(e))
                    /\ DOMAIN exec[e].dispatched_ok = StepNamesOf(WorkflowOf(e)))

\* C20 witness: an execution of a workflow whose earlier run had ended FAILED
\* with a step COMPLETED has dispatched that step again and ended COMPLETED.
C20_Witness ==
    \E e \in Execs :
        /\ Done(e) /\ exec[e].prior_status = FAILED /\ Ret(e).status = COMPLETED
        /\ \E s \in exec[e].prior_completed : s \in DOMAIN exec[e].dispatched_ok

\* ---------------------------------------------------------- outcome record
\* the call e returns in this step
Returns(e) == ~Done(e) /\ Done(e)'

\* the outcome record in the store carries what the call e returned
RecordMatchesReturn(store, x) ==
    /\ ~IsNone(x.ret)
    /\ The(x.ret).workflow_id = x.workflow_id
    /\ The(x.ret).status \in {COMPLETED, FAILED}
    /\ ~IsNone(store[ExecKey(x.workflow_id)])
    /\ The(store[ExecKey(x.workflow_id)]).status = The(x.ret).status
    /\ The(store[ExecKey(x.workflow_id)]).result = The(x.ret).result
    /\ The(store[ExecKey(x.workflow_id)]).error = The(x.ret).error

\* C21: every execute_workflow call that gets past the workflow lookup
\* writes, before it returns, an outcome record under workflow_execution:{id}
\* whose status, result and error are the values it returns, for COMPLETED
\* and FAILED alike; the record is written by nothing but a returning call,
\* so the record of the last execution to terminate is the one that remains.
C21_OutcomePersisted ==
    /\ [][\A e \in Execs : Returns(e) => RecordMatchesReturn(state_manager', exec'[e])]_vars
    /\ [][\A id \in WorkflowIds :
              state_manager'[ExecKey(id)] # state_manager[ExecKey(id)] =>
                  \E e \in Execs : Returns(e) /\ exec'[e].workflow_id = id]_vars
    /\ [](\A e \in Execs : Started(e) =>
              /\ Done(e) => ~IsNone(state_manager[ExecKey(exec[e].workflow_id)])
              /\ ~Done(e) => IsNone(exec[e].ret))

\* C21 witness: two executions of one id have ended, one FAILED and one
\* COMPLETED, and the record is that of the COMPLETED one.
C21_Witness ==
    \E e1, e2 \in Execs :
        /\ Done(e1) /\ Done(e2) /\ exec[e1].workflow_id = exec[e2].workflow_id
        /\ Ret(e1).status = FAILED /\ Ret(e2).status = COMPLETED
        /\ RecordMatchesReturn(state_manager, exec[e2])
        /\ ~IsNone(Ret(e2).result)

\* ------------------------------------------------------------ static fields
StaticFieldNames ==
    {"name", "service", "endpoint", "method", "params", "depends_on", "retry_count", "timeout"}
DynamicFieldNames == {"status", "result", "error", "started_at", "completed_at"}

\* the workflow w has the name and the step fields of a submitted definition
AsSubmitted(w) ==
    \E d \in StepDefinitions : w.name = d.name /\ StaticSteps(w) = d.steps

\* C22: no execution changes a step's name, service, endpoint, method,
\* params, depends_on, retry_count or timeout: after any sequence of
\* executions these fields equal the values given at create_workflow, and only
\* status, result, error, started_at and completed_at are written.
C22_StaticFieldsKept ==
    /\ [][\A ref \in 1..Len(heap) :
              /\ heap'[ref].workflow_id = heap[ref].workflow_id
              /\ heap'[ref].name = heap[ref].name
              /\ StaticSteps(heap'[ref]) = StaticSteps(heap[ref])]_vars
    /\ [](\A ref \in 1..Len(heap) :
              /\ AsSubmitted(heap[ref])
              /\ \A i \in 1..Len(heap[ref].steps) :
                    DOMAIN heap[ref].steps[i] = StaticFieldNames \cup DynamicFieldNames)

\* C22 witness: an execution of the workflow whose step b has parameters with
\* references has ended COMPLETED after b was dispatched twice with the
\* references resolved, and b's params are as submitted.
C22_Witness ==
    \E e \in Execs :
        /\ Done(e) /\ Ret(e).status = COMPLETED
        /\ "b" \in DOMAIN exec[e].tasks /\ exec[e].tasks["b"].attempts = 2
        /\ exec[e].tasks["b"].sent[2] # StepOf(WorkflowOf(e), "b").params
        /\ StepOf(WorkflowOf(e), "b").params # << >>
        /\ AsSubmitted(WorkflowOf(e))

\* ------------------------------------------------------- batch settlement
Settled(t) == t.pc \in {"ok", "err"}
\* some task of the batch of the call x has not yet returned or raised
InFlight(x) == x.pc = "gather" /\ \E s \in DOMAIN x.tasks : ~Settled(x.tasks[s])
\* this step is a step of the call e
StepOfCall(e) == exec'[e] # exec[e]
\* the task ended with a response, or raised after retry_count + 1 attempts
RanToEnd(t, step) ==
    \/ t.pc = "ok" /\ ~IsNone(t.response)
    \/ t.pc = "err" /\ ~IsNone(t.last_error) /\ t.attempts = step.retry_count + 1
\* the scheduler of the call e looks at the outcomes of its batch in this step
Inspects(e) ==
    /\ exec[e].pc = "gather"
    /\ \/ exec'[e].pc # "gather"
       \/ exec'[e].batches # exec[e].batches
       \/ exec'[e].executed_steps # exec[e].executed_steps
       \/ exec'[e].failed_step # exec[e].failed_step

\* C28: when a step of a batch fails, every other step launched in the batch
\* still runs to success or to retry exhaustion before the scheduler inspects
\* any outcome: while a step of the batch is in flight the execution sets
\* neither the workflow status to FAILED nor a step status to COMPLETED or
\* FAILED, and no sibling is cancelled.
C28_BatchSettlesEntirely ==
    /\ [][\A e \in Execs : InFlight(exec[e]) /\ StepOfCall(e) =>
              LET x == exec[e]
                  y == exec'[e]
                  w == heap[x.workflow]
                  v == heap'[x.workflow]
              IN /\ y.pc = "gather" /\ y.batches = x.batches
                 /\ y.ready_steps = x.ready_steps /\ DOMAIN y.tasks = DOMAIN x.tasks
                 /\ \A s \in DOMAIN x.tasks : Settled(x.tasks[s]) => y.tasks[s] = x.tasks[s]
                 /\ \A s \in DOMAIN x.tasks : y.tasks[s].pc # "new"
                        \/ x.tasks[s].pc = "new"
                 /\ y.executed_steps = x.executed_steps /\ y.results = x.results
                 /\ y.failed_step = x.failed_step /\ IsNone(y.ret)
                 /\ v.status = w.status /\ v.error = w.error /\ v.result = w.result
                 /\ \A i \in 1..Len(w.steps) :
                        /\ v.steps[i].status \in {COMPLETED, FAILED} =>
                               v.steps[i].status = w.steps[i].status
                        /\ v.steps[i].error = w.steps[i].error
                        /\ v.steps[i].result = w.steps[i].result]_vars
    /\ [][\A e \in Execs : Inspects(e) =>
              \A s \in DOMAIN exec[e].tasks :
                  RanToEnd(exec[e].tasks[s], StepOf(WorkflowOf(e), s))]_vars

\* C28 witness: step c of a batch has failed for good while its sibling b is
\* still awaiting its dispatch, and neither the workflow nor c is marked yet.
C28_Witness ==
    \E e \in Execs :
        /\ exec[e].pc = "gather"
        /\ DOMAIN exec[e].tasks = {"b", "c"}
        /\ exec[e].tasks["c"].pc = "err" /\ exec[e].tasks["c"].attempts = 2
        /\ exec[e].tasks["b"].pc = "dispatch"
        /\ WorkflowOf(e).status = RUNNING
        /\ StepOf(WorkflowOf(e), "c").status = RUNNING
        /\ \A f \in Execs : f # e => exec[f].pc = "idle"

\* ------------------------------------------------------------- fail-fast
\* a step of a batch of the call e has failed
BatchFailed(e) == ~IsNone(exec[e].failed_step)
\* the steps of the workflow the call e has not launched
NotLaunched(e) == StepNamesOf(WorkflowOf(e)) \ exec[e].launched
\* no other call has worked on the Workflow object of the call e
OnlyCallOn(e) ==
    \A f \in Execs : f # e => ~Started(f) \/ exec[f].workflow # exec[e].workflow

NextBatch(e) == exec[e].pc = "gather" /\ exec'[e].batches = exec[e].batches + 1
\* the call e launches the step s in this step
Launches(e, s) == s \notin exec[e].launched /\ s \in exec'[e].launched

\* C29: within one execution the batches run strictly one after another: no
\* step of a later batch is launched while a step of an earlier batch of the
\* same execution has not settled.
C29_BatchesSequential ==
    /\ [](\A e \in Execs : Started(e) =>
              /\ exec[e].pc = "gather" => DOMAIN exec[e].tasks = Range(exec[e].ready_steps)
              /\ exec[e].launched \ DOMAIN exec[e].tasks \subseteq exec[e].executed_steps
              /\ exec[e].executed_steps \subseteq DOMAIN exec[e].dispatched_ok
              /\ \A s \in DOMAIN exec[e].tasks :
                    exec[e].tasks[s].pc = "new" <=> s \notin exec[e].launched)
    /\ [][\A e \in Execs : NextBatch(e) =>
              /\ \A s \in DOMAIN exec[e].tasks :
                    exec[e].tasks[s].pc = "ok" /\ s \in exec'[e].executed_steps
              /\ DOMAIN exec'[e].tasks \cap DOMAIN exec[e].tasks = {}
              /\ DOMAIN exec'[e].tasks \cap exec[e].launched = {}
              /\ exec'[e].launched = exec[e].launched]_vars
    /\ [][\A e \in Execs, s \in StepNames : Launches(e, s) =>
              /\ exec[e].pc = "gather" /\ s \in DOMAIN exec[e].tasks
              /\ \A u \in exec[e].launched \ DOMAIN exec[e].tasks :
                    u \in exec[e].executed_steps /\ u \in DOMAIN exec[e].dispatched_ok]_vars

\* C29 witness: the second batch (c) of an execution is in flight after both
\* steps of the first batch (a, and b at its second attempt) have succeeded.
C29_Witness ==
    \E e \in Execs :
        /\ exec[e].pc = "gather" /\ exec[e].batches = 2
        /\ WorkflowOf(e).name = "branches"
        /\ DOMAIN exec[e].tasks = {"c"} /\ exec[e].tasks["c"].pc = "dispatch"
        /\ exec[e].executed_steps = {"a", "b"}
        /\ exec[e].dispatched_ok["b"].attempt = IntValue(2)

\* ------------------------------------------------------- dispatch targets
HasRouter(module) == ~IsNone(module.router)
HasServiceUrl(module) == ~IsNone(module.service_url)
\* the module has exactly one of a router and a service_url
ExactlyOneTarget(module) == HasRouter(module) # HasServiceUrl(module)

\* C23: every module held in the registry has exactly one of a router and a
\* service_url, after any sequence of register_module and unregister_module
\* calls, so that no dispatch meets a module without a dispatch target.
C23_ExactlyOneTarget ==
    /\ \A i \in Live(modules) : ExactlyOneTarget(The(modules[i]))
    /\ ~IsNone(dispatched) =>
          The(dispatched).raised # Some(NoTargetError(The(dispatched).service))

\* ---------------------------------------------------- in-process dispatch
\* the path is the route's path, a {name} of the route standing for one piece
\* of the path that is not "/"
RECURSIVE PatternMatches(_, _)
PatternMatches(pattern, path) ==
    IF pattern = << >> THEN path = << >>
    ELSE IF path = << >> THEN FALSE
    ELSE IF Head(pattern) = "{"
    THEN Head(path) # "/" /\ PatternMatches(SubSeq(pattern, 4, Len(pattern)), Tail(path))
    ELSE Head(path) = Head(pattern) /\ PatternMatches(Tail(pattern), Tail(path))

\* the handlers registered in the module for exactly this path and method
ExactHandlers(module, endpoint, method) ==
    LET full_path == rstrip(module.base_path, "/") \o <<"/">> \o lstrip(endpoint, "/")
        routes == The(module.router)
    IN {routes[i].endpoint : i \in {j \in 1..Len(routes) :
                                      /\ upper(method) \in routes[j].methods
                                      /\ PatternMatches(routes[j].path, full_path)}}

\* the last operation was a dispatch to an in-process module
InProcessDispatch ==
    /\ ~IsNone(dispatched)
    /\ ~IsNone(The(dispatched).module)
    /\ HasRouter(The(The(dispatched).module))

\* C24: in-process dispatch of (endpoint, method) invokes the handler
\* registered for exactly that path and method and no other: a handler whose
\* route path is only a prefix of the requested path is never invoked, at most
\* one handler is invoked, and without a handler for that exact path and
\* method the dispatch fails with the routing error.
C24_ExactHandlerOnly ==
    InProcessDispatch =>
        LET call == The(dispatched)
            exact == ExactHandlers(The(call.module), call.endpoint, call.method)
        IN /\ Len(call.invoked) <= 1
           /\ \A i \in 1..Len(call.invoked) : call.invoked[i] \in exact
           /\ exact # {} => Len(call.invoked) = 1
           /\ exact = {} => call.raised = Some(NoRouteError(call.method))

\* ------------------------------------------------------ external dispatch
\* the last operation was a dispatch to an external module
ExternalDispatch ==
    /\ ~IsNone(dispatched)
    /\ ~IsNone(The(dispatched).module)
    /\ ~HasRouter(The(The(dispatched).module))
    /\ Truthy(The(The(dispatched).module).service_url)

\* C25: dispatch to an external module returns a result mapping only when the
\* upstream status is 2xx; every non-2xx response surfaces as an error, never
\* as a result; a method other than GET, POST, PUT, DELETE fails without any
\* HTTP call.
C25_ExternalResultOnly2xx ==
    ExternalDispatch =>
        LET call == The(dispatched)
            supported == upper(call.method) \in {"GET", "POST", "PUT", "DELETE"}
        IN /\ IsNone(call.result) # IsNone(call.raised)
           /\ call.invoked = << >>
           /\ ~IsNone(call.result) =>
                 /\ Len(call.requests) = 1
                 /\ call.outcome.kind = "response" /\ call.outcome.status \in 200..299
           /\ supported /\ call.outcome.kind = "response" /\ call.outcome.status \notin 200..299 =>
                 /\ IsNone(call.result)
                 /\ call.raised = Some(HTTPStatusError(call.outcome.status))
           /\ supported => Len(call.requests) = 1 /\ call.requests[1].verb = upper(call.method)
           /\ ~supported =>
                 /\ call.requests = << >>
                 /\ call.raised = Some(UnsupportedMethodError(call.method))

\* C25 witness: the upstream answered 301 with a JSON object and the dispatch
\* raised the status error after its one HTTP call.
C25_Witness ==
    /\ ExternalDispatch
    /\ The(dispatched).outcome = [kind |-> "response", status |-> 301, body |-> "mapping"]
    /\ Len(The(dispatched).requests) = 1
    /\ The(dispatched).raised = Some(HTTPStatusError(301))
    /\ IsNone(The(dispatched).result)

\* ----------------------------------------------------------- health checks
\* the module is external and has a health endpoint
Probed(module) ==
    ~HasRouter(module) /\ Truthy(module.service_url) /\ Truthy(module.health_check_endpoint)
\* the modules the check_health call has gone through so far
Visited == {health.visited[i] : i \in 1..Len(health.visited)}
\* the entries the call adds in this step
NewlyVisited ==
    {health'.visited[i] : i \in (Len(health.visited) + 1)..Len(health'.visited)}
\* the check_health call is one call going on in this step
SameHealthCall ==
    /\ Len(health'.visited) >= Len(health.visited)
    /\ SubSeq(health'.visited, 1, Len(health.visited)) = health.visited

\* C26: check_health on registered modules never propagates a probe failure:
\* for an external module with a health endpoint it sets and reports healthy
\* = true exactly when the probe returned status 200, false on any other
\* status and on a transport error; in-process modules and modules without a
\* health endpoint are always reported healthy.
C26_HealthNeverPropagates ==
    /\ [](\A v \in Visited :
              /\ Probed(v.module) =>
                    /\ ~IsNone(v.upstream)
                    /\ v.reported = (The(v.upstream).kind = "response"
                                     /\ The(v.upstream).status = 200)
              /\ ~Probed(v.module) => IsNone(v.upstream) /\ v.reported = TRUE)
    /\ [](/\ DOMAIN health.results = {v.module.module_name : v \in Visited}
          /\ \A i \in 1..Len(health.visited) :
                (\A j \in (i + 1)..Len(health.visited) :
                    health.visited[j].module.module_name # health.visited[i].module.module_name)
                => health.results[health.visited[i].module.module_name]
                     = health.visited[i].reported)
    /\ [](health.pc = "raised" =>
              \/ /\ TruthyName(health.module_name)
                 /\ health.raised = Some(KeyError(The(health.module_name)))
                 /\ The(health.module_name) \notin health.called_with
              \/ health.raised = Some(RuntimeError) /\ ~health.listed)
    /\ [][health'.pc = "raised" /\ health.pc # "raised" /\ health'.raised = Some(RuntimeError)
              => Cardinality(Live(modules)) # health.used]_vars
    /\ [][SameHealthCall =>
              \A v \in NewlyVisited : HasRouter(v.module) \/ Probed(v.module) =>
                  \A i \in Live(modules') :
                      The(modules'[i]).oid = v.module.oid =>
                          The(modules'[i]).healthy = v.reported]_vars

\* C26 witness: a check over all modules has returned; the in-process module
\* is reported healthy and the external one, whose probe was answered 204,
\* is reported and recorded unhealthy.
C26_Witness ==
    /\ health.pc = "done" /\ IsNone(health.module_name)
    /\ \E v \in Visited : HasRouter(v.module) /\ v.reported
    /\ \E v \in Visited :
          /\ Probed(v.module)
          /\ v.upstream = Some([kind |-> "response", status |-> 204, body |-> ""])
          /\ ~v.reported /\ ~health.results[v.module.module_name]
          /\ \E i \in Live(modules) :
                The(modules[i]).oid = v.module.oid /\ ~The(modules[i]).healthy

\* ------------------------------------------------------ the execute endpoint
Ended(e) == exec[e].pc \in {"done", "raised"}

\* C27: when an execution ends with the workflow FAILED, the execute endpoint
\* answers with a non-2xx status carrying the terminal status and the error;
\* a 2xx answer is given only for a COMPLETED execution.
C27_FailedAnswersNon2xx ==
    \A e \in Execs : Ended(e) =>
        LET answer == execute_workflow_endpoint(exec[e])
        IN /\ Done(e) /\ Ret(e).status = FAILED => answer.status_code \notin 200..299
           /\ answer.status_code \in 200..299 => Done(e) /\ Ret(e).status = COMPLETED

Layered(context, results, step_params) ==
    [key \in DOMAIN context \cup DOMAIN results \cup DOMAIN step_params |->
        IF key \in DOMAIN step_params THEN step_params[key]
        ELSE IF key \in DOMAIN results THEN DictValue(results[key])
        ELSE context[key]]

\* the value holds no reference and no container: resolution leaves it alone
Plain(value) ==
    /\ ~isinstance(value, "dict") /\ ~isinstance(value, "list")
    /\ ~(isinstance(value, "str") /\ startswith(value, "${") /\ endswith(value, "}"))

\* C32: the parameters dispatched for a step are the key-by-key layering of
\* the caller's context, then the completed step results keyed by step name,
\* then the step's own params: a key present in several layers takes the
\* step's value, else the result, else the context value, and every key of
\* every layer is dispatched.
C32_ParamsLayered ==
    /\ [][\A e \in Execs, s \in StepNames : Launches(e, s) =>
              LET x == exec[e]
                  step_params == StepOf(WorkflowOf(e), s).params
                  layered == Layered(x.context, x.results, step_params)
                  sent == exec'[e].tasks[s].sent[1]
              IN /\ DOMAIN x.results = x.executed_steps
                 /\ sent = resolve_params(layered, x.results)
                 /\ DOMAIN sent = DOMAIN x.context \cup x.executed_steps \cup DOMAIN step_params
                 /\ \A key \in DOMAIN sent : Plain(layered[key]) => sent[key] = layered[key]]_vars
    /\ [](\A e \in Execs : Started(e) =>
              \A s \in DOMAIN exec[e].tasks :
                  \A i \in 1..Len(exec[e].tasks[s].sent) :
                      exec[e].tasks[s].sent[i] = exec[e].tasks[s].resolved_params)

\* C32 witness: step c is dispatched with a context that has the keys a and
\* region and with the results of a and b: the key b carries c's own
\* parameter, the key a the result of step a, region the context value.
C32_Witness ==
    \E e \in Execs :
        /\ exec[e].pc = "gather" /\ WorkflowOf(e).name = "branches"
        /\ "c" \in DOMAIN exec[e].tasks /\ exec[e].tasks["c"].attempts = 1
        /\ DOMAIN exec[e].context = {"input", "region", "a"}
        /\ DOMAIN exec[e].results = {"a", "b"}
        /\ LET sent == exec[e].tasks["c"].sent[1]
           IN /\ DOMAIN sent = {"input", "region", "a", "b"}
              /\ sent["b"] = StrValue(<<"own">>)
              /\ sent["a"] = DictValue(exec[e].results["a"])
              /\ sent["region"] = StrValue(<<"eu">>)

\* ----------------------------------------------------------- the store lock
\* a step of the call e is being dispatched or is in backoff
StepInFlight(e) ==
    /\ exec[e].pc = "gather"
    /\ \E s \in DOMAIN exec[e].tasks : exec[e].tasks[s].pc \in {"dispatch", "sleep"}
\* the first call not yet made
NextCall(e) == exec[e].pc = "idle" /\ \A f \in Execs : f < e => exec[f].pc # "idle"

\* C33: the store lock is held only during lookup, rehydration and table
\* insertion, never while a step is being dispatched or is in backoff: an
\* execute_workflow call on one id is never blocked by a running step of
\* another workflow.
C33_LockNotHeldAcrossSteps ==
    /\ ~lock
    /\ \A e, f \in Execs, id \in WorkflowIds :
          /\ StepInFlight(e) /\ NextCall(f)
          /\ id # exec[e].workflow_id /\ workflows[id] # 0
          => ENABLED execute_workflow(f, id, None)

\* C33 witness: steps of two different workflows are RUNNING, each awaiting
\* its dispatch, at the same time.
C33_Witness ==
    \E e, f \in Execs :
        /\ exec[e].workflow_id # exec[f].workflow_id
        /\ StepInFlight(e) /\ StepInFlight(f)
        /\ \E s \in DOMAIN exec[e].tasks :
              exec[e].tasks[s].pc = "dispatch" /\ StepOf(WorkflowOf(e), s).status = RUNNING
        /\ \E s \in DOMAIN exec[f].tasks :
              exec[f].tasks[s].pc = "dispatch" /\ StepOf(WorkflowOf(f), s).status = RUNNING

\* ------------------------------------------------- step status at return
\* C34: when execute_workflow returns, every step that was launched in that
\* execution has status COMPLETED or FAILED: no step is left RUNNING,
\* whichever step of a batch failed (here for a call that is the only one to
\* have worked on its workflow).
C34_NoStepLeftRunning ==
    \A e \in Execs : Done(e) /\ OnlyCallOn(e) =>
        \A s \in exec[e].launched :
            StepOf(WorkflowOf(e), s).status \in {COMPLETED, FAILED}

\* ------------------------------------------- what an execution reports
\* C35: the result and the error an execution returns and persists describe
\* that execution only: an execution that returns COMPLETED reports no error,
\* and an execution that returns FAILED reports no result mapping.
C35_OutcomeOfThisExecutionOnly ==
    \A e \in Execs : Done(e) =>
        /\ Ret(e).status = COMPLETED => IsNone(Ret(e).error)
        /\ Ret(e).status = FAILED => IsNone(Ret(e).result)

\* ------------------------------------------------- visibility of results
\* the responses of the call e that are held in values of the mapping
TagsOfExec(results, e) ==
    \A u \in DOMAIN results : results[u].exec = IntValue(e)

\* C36: a step's dispatched parameters depend only on the results of steps
\* completed in earlier batches of the same execution: the result of a step
\* of the same batch is never visible to its siblings' layering or template
\* resolution, in any interleaving, and results of another execution are
\* never visible.
C36_OnlyEarlierBatchesVisible ==
    /\ [][\A e \in Execs, s \in StepNames : Launches(e, s) =>
              LET x == exec[e]
                  step_params == StepOf(WorkflowOf(e), s).params
                  sent == exec'[e].tasks[s].sent[1]
              IN /\ DOMAIN x.results \cap DOMAIN x.tasks = {}
                 /\ DOMAIN x.results \subseteq x.completed_marks
                 /\ \A u \in DOMAIN x.results : x.results[u] = x.dispatched_ok[u]
                 /\ TagsOfExec(x.results, e)
                 /\ sent = resolve_params(MergedParams(x.context, x.results, step_params),
                                          x.results)
                 /\ \A u \in DOMAIN x.tasks :
                       u \notin DOMAIN x.context \cup DOMAIN step_params => u \notin DOMAIN sent]_vars
    /\ [](\A e \in Execs : exec[e].pc = "gather" =>
              /\ DOMAIN exec[e].results \cap DOMAIN exec[e].tasks = {}
              /\ TagsOfExec(exec[e].results, e)
              /\ \A s \in DOMAIN exec[e].tasks :
                    \A i \in 1..Len(exec[e].tasks[s].sent) :
                        exec[e].tasks[s].sent[i] = exec[e].tasks[s].sent[1])

\* C36 witness: b was launched when its sibling a had already received its
\* response; b's reference to a result of a is dispatched unresolved and no
\* key a is dispatched.
C36_Witness ==
    \E e \in Execs :
        /\ exec[e].pc = "gather" /\ WorkflowOf(e).name = "branches"
        /\ DOMAIN exec[e].tasks = {"a", "b"} /\ IsNone(exec[e].context)
        /\ exec[e].tasks["a"].pc = "ok"
        /\ exec[e].tasks["b"].attempts = 2
        /\ exec[e].tasks["b"].sent[2] = [ref |-> Template(<<"a", ".", "attempt">>)]

\* ------------------------------------------------------------ StateManager
\* C37: StateManager.get never returns a value whose TTL has elapsed: a
\* value stored by set with ttl = t is not returned by a get made more than
\* t seconds after that set.
C37_NoExpiredValueReturned ==
    manager.returned.op = "get" /\ ~IsNone(manager.returned.value) =>
        LET value == The(manager.returned.value)
        IN IsNone(value.ttl) \/ manager.returned.at <= value.at + The(value.ttl)

\* C38: the cache never holds more than cache_size entries, and its
\* timestamp table has exactly the keys of the cache.
C38_CacheBounded ==
    /\ Len(manager.cache) <= manager.cache_size
    /\ DictKeys(manager.cache_timestamps) = DictKeys(manager.cache)

\* C39: a set or a delete under (k1, n1) changes what get(k2, n2) returns
\* only when k1 = k2 and n1 = n2, also for keys and namespaces that contain
\* the separator.
C39_NamespacesIsolated ==
    [][\A k1 \in Keys, n1 \in Namespaces :
          (\/ \E payload \in Payloads, ttl \in Ttls :
                 manager' = AfterSet(manager, k1, payload, n1, ttl)
           \/ manager' = AfterDelete(manager, k1, n1)) =>
              \A k2 \in Keys, n2 \in Namespaces : <<k2, n2>> # <<k1, n1>> =>
                  GetValue(manager', k2, n2) = GetValue(manager, k2, n2)]_vars

\* ------------------------------------------- health checks and the registry
\* C40: check_health over all modules completes and returns one boolean per
\* module registered when it was called, also when register_module or
\* unregister_module runs while one of its probes awaits its response: a
\* registry change during the probe loop never makes check_health fail.
C40_HealthSurvivesRegistryChange ==
    ~TruthyName(health.module_name) =>
        /\ health.pc # "raised"
        /\ health.pc = "done" => DOMAIN health.results = health.called_with

====
